---- MODULE Spec2Model ----
(***************************************************************************)
(* A model of the Obsidian vault server: the vault service (file reads and *)
(* writes, gray-matter frontmatter handling, markdown link extraction,     *)
(* link resolution) and the tool handlers built on it.                     *)
(*                                                                         *)
(* Strings are TLA+ strings; a character is a string of length one.        *)
(* A vault is a function from vault-relative file paths to files, a file   *)
(* being its text and its modification time.                               *)
(***************************************************************************)
EXTENDS Integers, Sequences, FiniteSets, TLC

VARIABLES files, dirs, clock, last, calls

vars == <<files, dirs, clock, last, calls>>

-----------------------------------------------------------------------------
(* JavaScript string primitives *)

Min(a, b) == IF a < b THEN a ELSE b

Max(a, b) == IF a > b THEN a ELSE b

\* s.substring(from, to): 0-based, to excluded, both clamped to the string
Substring(s, from, to) ==
  LET a == Max(0, Min(from, Len(s)))
      b == Max(0, Min(to, Len(s)))
  IN IF a >= b THEN "" ELSE SubSeq(s, a + 1, b)

\* the i-th character of s, counting from 1; "" outside the string
CharAt(s, i) == Substring(s, i - 1, i)

\* s.slice(n): the characters of s after the first n
SliceFrom(s, n) == Substring(s, n, Len(s))

\* s.startsWith(p)
StartsWith(s, p) == Len(s) >= Len(p) /\ SubSeq(s, 1, Len(p)) = p

\* s.endsWith(p)
EndsWith(s, p) == Len(s) >= Len(p) /\ SubSeq(s, Len(s) - Len(p) + 1, Len(s)) = p

\* the one element of a set of one element: The({e(x) : x \in {v}}) is e(v),
\* with v worked out once
The(S) == CHOOSE v \in S : TRUE

\* the least element of a non-empty set of integers
Least(S) == CHOOSE i \in S : \A j \in S : i <= j

\* s.indexOf(sub) as a 0-based index, -1 when sub does not occur
IndexOf(s, sub) ==
  The({IF hits = {} THEN -1 ELSE Least(hits) :
         hits \in {{i \in 0..(Len(s) - Len(sub)) : SubSeq(s, i + 1, i + Len(sub)) = sub}}})

\* s.includes(sub)
Includes(s, sub) == \E i \in 0..(Len(s) - Len(sub)) : SubSeq(s, i + 1, i + Len(sub)) = sub

\* s.lastIndexOf(sub) as a 0-based index, -1 when sub does not occur
LastIndexOf(s, sub) ==
  The({IF hits = {} THEN -1 ELSE -Least({-i : i \in hits}) :
         hits \in {{i \in 0..(Len(s) - Len(sub)) : SubSeq(s, i + 1, i + Len(sub)) = sub}}})

\* whether character c is one of the characters of the string cls
InClass(c, cls) == \E i \in 1..Len(cls) : SubSeq(cls, i, i) = c

UpperLetters == "ABCDEFGHIJKLMNOPQRSTUVWXYZ"

LowerLetters == "abcdefghijklmnopqrstuvwxyz"

Digits == "0123456789"

LowerChar(c) ==
  IF c = "" THEN ""
  ELSE The({IF i = -1 THEN c ELSE SubSeq(LowerLetters, i + 1, i + 1) :
              i \in {IndexOf(UpperLetters, c)}})

RECURSIVE ToLowerCase(_)
\* s.toLowerCase(), half by half
ToLowerCase(s) ==
  IF Len(s) <= 1 THEN LowerChar(s)
  ELSE ToLowerCase(SubSeq(s, 1, Len(s) \div 2)) \o ToLowerCase(SubSeq(s, Len(s) \div 2 + 1, Len(s)))

\* the length of the longest prefix of s made of characters of cls
RunLen(s, cls) ==
  The({IF stops = {} THEN Len(s) ELSE Least(stops) - 1 :
         stops \in {{i \in 1..Len(s) : ~InClass(SubSeq(s, i, i), cls)}}})

\* the length of the longest prefix of s made of characters outside cls
RunLenNot(s, cls) ==
  The({IF stops = {} THEN Len(s) ELSE Least(stops) - 1 :
         stops \in {{i \in 1..Len(s) : InClass(SubSeq(s, i, i), cls)}}})

\* s.split(sep) for a one-character separator
RECURSIVE Split(_, _)
Split(s, sep) ==
  The({IF i = -1 THEN <<s>> ELSE <<SubSeq(s, 1, i)>> \o Split(SliceFrom(s, i + 1), sep) :
         i \in {IndexOf(s, sep)}})

\* parts.join(sep)
RECURSIVE Join(_, _)
Join(parts, sep) ==
  IF parts = <<>> THEN ""
  ELSE IF Len(parts) = 1 THEN parts[1]
  ELSE parts[1] \o sep \o Join(Tail(parts), sep)

\* s.trim(), for the whitespace the model writes: spaces and newlines
TrimStart(s) == SliceFrom(s, RunLen(s, " \n"))

TrimEnd(s) ==
  The({IF inked = {} THEN "" ELSE SubSeq(s, 1, -Least({-i : i \in inked})) :
         inked \in {{i \in 1..Len(s) : ~InClass(SubSeq(s, i, i), " \n")}}})

Trim(s) == TrimEnd(TrimStart(s))

\* the elements of a sequence
Range(seq) == {seq[i] : i \in 1..Len(seq)}

-----------------------------------------------------------------------------
(* node:path, POSIX flavour, on vault-relative paths *)

RECURSIVE NormalizeSegs(_, _)
\* path.normalize on the segments of a path: "" and "." vanish, ".." pops
NormalizeSegs(segs, acc) ==
  IF segs = <<>> THEN acc
  ELSE IF Head(segs) = "" \/ Head(segs) = "." THEN NormalizeSegs(Tail(segs), acc)
  ELSE IF Head(segs) = ".." /\ acc # <<>> /\ acc[Len(acc)] # ".."
       THEN NormalizeSegs(Tail(segs), SubSeq(acc, 1, Len(acc) - 1))
  ELSE NormalizeSegs(Tail(segs), Append(acc, Head(segs)))

\* getAbsolutePath followed by getRelativePath: the path of the file under the
\* vault root that a request path names.  One leading slash is removed, then
\* path.join normalizes; the vault root itself is "".
getAbsolutePath(relativePath) ==
  Join(NormalizeSegs(Split(IF StartsWith(relativePath, "/") THEN SliceFrom(relativePath, 1)
                           ELSE relativePath, "/"),
                     <<>>),
       "/")

\* path.basename(p)
Basename(p) == SliceFrom(p, LastIndexOf(p, "/") + 1)

\* path.dirname(p), "" being the vault root
Dirname(p) == Substring(p, 0, LastIndexOf(p, "/"))

\* path.extname(p): from the last "." of the basename, unless it is its first character
Extname(p) ==
  The({IF i <= 0 THEN "" ELSE SliceFrom(b, i) : <<b, i>> \in {<<Basename(p), LastIndexOf(Basename(p), ".")>>}})

\* path.basename(p, path.extname(p))
NameOf(p) == SubSeq(Basename(p), 1, Len(Basename(p)) - Len(Extname(p)))

MARKDOWN_EXTENSIONS == {".md", ".markdown"}

isMarkdownFile(filePath) == ToLowerCase(Extname(filePath)) \in MARKDOWN_EXTENSIONS

\* the directories above a path, nearest last: "a/b/c.md" gives <<"a", "a/b">>
RECURSIVE Ancestors(_)
Ancestors(p) == IF Dirname(p) = "" THEN <<>> ELSE Append(Ancestors(Dirname(p)), Dirname(p))

-----------------------------------------------------------------------------
(* Frontmatter: a JavaScript object with string keys, as the sequence of its  *)
(* entries in insertion order.  An entry is [key, val, list]: val holds the   *)
(* strings of a list value, or the one string of a scalar value.              *)

Entry(k, v, l) == [key |-> k, val |-> v, list |-> l]

FmKeys(fm) == {fm[i].key : i \in 1..Len(fm)}

FmHas(fm, k) == k \in FmKeys(fm)

\* fm[k], for a key the object has
FmGet(fm, k) == fm[CHOOSE i \in 1..Len(fm) : fm[i].key = k]

\* { ...a, ...b }: the keys of a keep their place and take b's value when b
\* has the key, the other keys of b follow
SpreadMerge(a, b) ==
  LET New(e) == ~FmHas(a, e.key)
  IN [i \in 1..Len(a) |-> IF FmHas(b, a[i].key) THEN FmGet(b, a[i].key) ELSE a[i]]
       \o SelectSeq(b, New)

\* deep equality of two objects (vitest's toEqual): the same keys with the same values
FmEqual(a, b) ==
  /\ FmKeys(a) = FmKeys(b)
  /\ \A k \in FmKeys(a) : FmGet(a, k) = FmGet(b, k)

-----------------------------------------------------------------------------
(* js-yaml, for the mappings of strings and lists of strings the model uses *)

\* js-yaml writes a string in quotes when it would not read back as that string
NeedsQuote(v) == v = "" \/ InClass(Head(v), Digits) \/ Includes(v, ": ") \/ Includes(v, "#")

YamlScalar(v) == IF NeedsQuote(v) THEN "'" \o v \o "'" ELSE v

YamlUnquote(t) ==
  IF Len(t) >= 2 /\ Head(t) = "'" /\ CharAt(t, Len(t)) = "'" THEN SubSeq(t, 2, Len(t) - 1)
  ELSE t

RECURSIVE YamlItems(_)
YamlItems(items) ==
  IF items = <<>> THEN "" ELSE "  - " \o YamlScalar(Head(items)) \o "\n" \o YamlItems(Tail(items))

RECURSIVE YamlDump(_)
\* yaml.safeDump(data)
YamlDump(fm) ==
  IF fm = <<>> THEN ""
  ELSE LET e == Head(fm)
           line == IF ~e.list THEN e.key \o ": " \o YamlScalar(e.val[1]) \o "\n"
                   ELSE IF e.val = <<>> THEN e.key \o ": []\n"
                   ELSE e.key \o ":\n" \o YamlItems(e.val)
       IN line \o YamlDump(Tail(fm))

\* a "key: value" line, its colon at index c of the trimmed line t
YamlEntry(acc, t, c) ==
  IF c <= 0 \/ FmHas(acc.data, SubSeq(t, 1, c)) THEN [acc EXCEPT !.ok = FALSE]
  ELSE The({IF StartsWith(rest, "[") /\ rest # "[]" THEN [acc EXCEPT !.ok = FALSE]
            ELSE IF rest = "" \/ rest = "[]"
            THEN [acc EXCEPT !.data = Append(@, Entry(SubSeq(t, 1, c), <<>>, TRUE))]
            ELSE [acc EXCEPT !.data = Append(@, Entry(SubSeq(t, 1, c),
                                                      <<YamlUnquote(rest)>>, FALSE))] :
              rest \in {Trim(SliceFrom(t, c + 1))}})

\* one line of a YAML block folded into the mapping read so far.  The blocks
\* read are those YamlDump writes; ok turns FALSE where js-yaml throws: an
\* unclosed flow sequence ("key: ["), a list item with no list open, a
\* repeated key, a line that is no mapping entry
YamlLine(acc, line) ==
  The({IF ~acc.ok \/ t = "" \/ StartsWith(t, "#") THEN acc
       ELSE IF StartsWith(t, "- ")
            THEN IF acc.data # <<>> /\ acc.data[Len(acc.data)].list
                 THEN [acc EXCEPT !.data[Len(acc.data)].val =
                                     Append(@, YamlUnquote(Trim(SliceFrom(t, 2))))]
                 ELSE [acc EXCEPT !.ok = FALSE]
       ELSE YamlEntry(acc, t, IndexOf(t, ":")) :
         t \in {Trim(line)}})

RECURSIVE YamlFold(_, _)
YamlFold(acc, lines) ==
  IF lines = <<>> THEN acc ELSE YamlFold(YamlLine(acc, Head(lines)), Tail(lines))

\* yaml.safeLoad(block): [ok, data]
YamlLoad(block) == YamlFold([ok |-> TRUE, data |-> <<>>], Split(block, "\n"))

-----------------------------------------------------------------------------
(* gray-matter *)

\* gray-matter's newline(str): str with a line break at its end
Newline(str) == IF str = "" \/ CharAt(str, Len(str)) # "\n" THEN str \o "\n" ELSE str

\* the language named after the opening delimiter: str.slice(0,
\* str.search(/\r?\n/)), search giving -1 when str has no line break
matterLanguage(str) ==
  The({IF nl = -1 THEN Substring(str, 0, Len(str) - 1) ELSE Substring(str, 0, nl) :
         nl \in {IndexOf(str, "\n")}})

\* the block and the content of a text str that follows the opening delimiter
matterBlock(language, str) ==
  The({[ok |-> Trim(language) = "" /\ loaded.ok,
        data |-> loaded.data,
        content |-> IF found = -1 THEN ""
                    ELSE IF StartsWith(SliceFrom(str, found + 4), "\n")
                    THEN SliceFrom(str, found + 5)
                    ELSE SliceFrom(str, found + 4)] :
         <<found, loaded>> \in
           {The({<<i, YamlLoad(SubSeq(str, 1, IF i = -1 THEN Len(str) ELSE i))>> :
                   i \in {IndexOf(str, "\n---")}})}})

\* matter(input): [ok, data, content].  A text that opens with the delimiter
\* "---" (and no fourth dash) holds a YAML block up to the first "\n---"; the
\* content is what follows the closing delimiter, less one leading line break.
\* ok is FALSE when the parse throws: a YAML block js-yaml rejects, or an
\* unregistered language named after the opening delimiter.
matter(input) ==
  IF ~StartsWith(input, "---") \/ CharAt(input, 4) = "-"
  THEN [ok |-> TRUE, data |-> <<>>, content |-> input]
  ELSE The({matterBlock(language,
                        IF Trim(language) # "" THEN SliceFrom(SliceFrom(input, 3), Len(language))
                        ELSE SliceFrom(input, 3)) :
              language \in {matterLanguage(SliceFrom(input, 3))}})

\* matter.stringify(content, data): [ok, text].  The content string is parsed
\* first, so a block it opens with is merged under data; the new block is
\* written before the remaining content, which gets a line break at its end.
stringify(content, data) ==
  The({[ok |-> file.ok,
        text |-> The({IF merged # <<>>
                      THEN "---\n" \o Trim(YamlDump(merged)) \o "\n" \o "---\n"
                      ELSE "" :
                        merged \in {SpreadMerge(file.data, data)}})
                   \o Newline(file.content)] :
         file \in {matter(content)}})

-----------------------------------------------------------------------------
(* VaultService: markdown parsing *)

TagChars == LowerLetters \o UpperLetters \o Digits \o "_/-"

RECURSIVE TagMatches(_)
\* content.matchAll(TAG_REGEX), TAG_REGEX = /#([a-zA-Z0-9_/-]+)/g: the captures
TagMatches(s) ==
  The({IF i = -1 THEN <<>>
       ELSE The({IF n >= 1
                 THEN <<Substring(s, i + 1, i + 1 + n)>> \o TagMatches(SliceFrom(s, i + 1 + n))
                 ELSE TagMatches(SliceFrom(s, i + 1)) :
                   n \in {RunLen(SliceFrom(s, i + 1), TagChars)}}) :
         i \in {IndexOf(s, "#")}})

RECURSIVE AddAll(_, _)
\* a JavaScript Set filled in order: each new element once, in insertion order
AddAll(acc, items) ==
  IF items = <<>> THEN acc
  ELSE AddAll(IF Head(items) \in Range(acc) THEN acc ELSE Append(acc, Head(items)), Tail(items))

\* extractTags(content, frontmatterTags)
extractTags(content, frontmatterTags) ==
  AddAll(AddAll(<<>>, [i \in 1..Len(frontmatterTags) |->
                        IF StartsWith(frontmatterTags[i], "#")
                        THEN SliceFrom(frontmatterTags[i], 1)
                        ELSE frontmatterTags[i]]),
         TagMatches(content))

NoMatch == [len |-> 0, target |-> "", isEmbed |-> FALSE]

\* the position after the longest run of characters outside cls that starts at
\* position p of s (0-based), -1 when that run is empty
RunEnd(s, p, cls) ==
  The({IF n = 0 THEN -1 ELSE p + n : n \in {RunLenNot(SliceFrom(s, p), cls)}})

\* the position after an optional part (?:mark([^cls]+))? tried at position p,
\* -1 when the match has failed: at p already, or on a mark that nothing follows
OptionalPart(s, p, mark, cls) ==
  IF p = -1 THEN -1 ELSE IF CharAt(s, p + 1) # mark THEN p ELSE RunEnd(s, p + 1, cls)

\* WIKI_LINK_REGEX tried at the start of s:
\*   !?\[\[([^\]|#^]+)(?:#([^\]|^]+))?(?:\^([^\]|]+))?(?:\|([^\]]+))?\]\]
\* [len, target, isEmbed], len = 0 for no match.  Each class excludes every
\* character that may follow it, so each run is the longest one.
WikiMatchAt(s) ==
  The({IF Substring(s, bang, bang + 2) # "[[" THEN NoMatch
       ELSE The({IF p4 = -1 \/ Substring(s, p4, p4 + 2) # "]]" THEN NoMatch
                 ELSE [len |-> p4 + 2, target |-> Substring(s, bang + 2, p1),
                       isEmbed |-> bang = 1] :
                   <<p1, p4>> \in
                     {The({<<p, OptionalPart(s, OptionalPart(s, OptionalPart(s, p, "#", "]|^"),
                                                              "^", "]|"),
                                             "|", "]")>> :
                             p \in {RunEnd(s, bang + 2, "]|#^")}})}}) :
         bang \in {IF StartsWith(s, "!") THEN 1 ELSE 0}})

\* MARKDOWN_LINK_REGEX tried at the start of s:  !?\[([^\]]*)\]\(([^)]+)\)
MarkdownMatchAt(s) ==
  The({IF Substring(s, bang, bang + 1) # "[" THEN NoMatch
       ELSE The({IF Substring(s, p1, p1 + 2) # "](" THEN NoMatch
                 ELSE The({IF p2 = -1 \/ CharAt(s, p2 + 1) # ")" THEN NoMatch
                           ELSE [len |-> p2 + 1, target |-> Substring(s, p1 + 2, p2),
                                 isEmbed |-> bang = 1] :
                             p2 \in {RunEnd(s, p1 + 2, ")")}}) :
                   p1 \in {bang + 1 + RunLenNot(SliceFrom(s, bang + 1), "]")}}) :
         bang \in {IF StartsWith(s, "!") THEN 1 ELSE 0}})

RECURSIVE WikiMatches(_)
\* content.matchAll(WIKI_LINK_REGEX): the matches from left to right, none
\* overlapping.  A match starts at a "[[" or at the "!" before one.
WikiMatches(s) ==
  The({IF i = -1 THEN <<>>
       ELSE The({IF m.len > 0
                 THEN <<[target |-> m.target, isEmbed |-> m.isEmbed]>>
                      \o WikiMatches(SliceFrom(s, from + m.len))
                 ELSE WikiMatches(SliceFrom(s, from + 1)) :
                   <<from, m>> \in
                     {The({<<f, WikiMatchAt(SliceFrom(s, f))>> :
                             f \in {IF CharAt(s, i) = "!" THEN i - 1 ELSE i}})}}) :
         i \in {IndexOf(s, "[[")}})

RECURSIVE MarkdownMatches(_)
\* content.matchAll(MARKDOWN_LINK_REGEX); a match starts at a "[" or at the
\* "!" before one
MarkdownMatches(s) ==
  The({IF i = -1 THEN <<>>
       ELSE The({IF m.len > 0
                 THEN <<[target |-> m.target, isEmbed |-> m.isEmbed]>>
                      \o MarkdownMatches(SliceFrom(s, from + m.len))
                 ELSE MarkdownMatches(SliceFrom(s, from + 1)) :
                   <<from, m>> \in
                     {The({<<f, MarkdownMatchAt(SliceFrom(s, f))>> :
                             f \in {IF CharAt(s, i) = "!" THEN i - 1 ELSE i}})}}) :
         i \in {IndexOf(s, "[")}})

\* the markdown links kept: those whose target is no http(s) URL
IsInternal(link) == ~StartsWith(link.target, "http://") /\ ~StartsWith(link.target, "https://")

\* extractLinks(content) as parseNote keeps it: the targets of the wiki links,
\* then those of the internal markdown links
extractLinks(content) ==
  The({[i \in 1..Len(links) |-> links[i].target] :
         links \in {WikiMatches(content) \o SelectSeq(MarkdownMatches(content), IsInternal)}})

\* parseNote(filePath, content, stats): [ok, note]; ok is FALSE when it throws
\* (gray-matter throws, or frontmatter.tags is a string, which has no forEach).
\* The note carries the fields the tools read.
parseNote(filePath, text, mtime) ==
  The({[ok |-> parsed.ok /\ (FmHas(parsed.data, "tags") => FmGet(parsed.data, "tags").list),
        note |-> [path |-> filePath,
                  name |-> NameOf(filePath),
                  content |-> parsed.content,
                  frontmatter |-> parsed.data,
                  tags |-> extractTags(parsed.content,
                                       IF FmHas(parsed.data, "tags")
                                       THEN FmGet(parsed.data, "tags").val ELSE <<>>),
                  links |-> extractLinks(parsed.content),
                  modified |-> mtime]] :
         parsed \in {matter(text)}})

-----------------------------------------------------------------------------
(* The file system under the vault root.  files maps the path of every     *)
(* file to its text and modification time; dirs is the set of directories, *)
(* the root "" always being one.  Each operator takes the state it reads.  *)

\* the write clock's last value: writes beyond it share a timestamp, as two
\* writes within the resolution of the file system's clock do
MaxClock == 2

ERROR_NOTE_NOT_FOUND == "Note not found"

ERROR_INVALID_PATH == "Invalid path: paths must be relative to vault root"

ERROR_CONFIRM == "Deletion must be confirmed with confirm: true"

NoNote ==
  [path |-> "", name |-> "", content |-> "", frontmatter |-> <<>>, tags |-> <<>>,
   links |-> <<>>, modified |-> 0]

\* a read that threw
NotRead == [ok |-> FALSE, note |-> NoNote]

IsFile(fs, p) == p \in DOMAIN fs

\* the vault root "" and the directory that holds it are directories
IsDir(ds, p) == p = "" \/ p = ".." \/ p \in ds

\* fs.writeFile(path, text): [ok, files, clock]; it throws when the parent is
\* no directory or the path is one
writeFile(fs, ds, clk, p, text) ==
  LET now == Min(clk + 1, MaxClock)
  IN IF ~IsDir(ds, Dirname(p)) \/ IsDir(ds, p)
     THEN [ok |-> FALSE, files |-> fs, clock |-> clk]
     ELSE [ok |-> TRUE,
           files |-> [q \in DOMAIN fs \cup {p} |->
                        IF q = p THEN [text |-> text, mtime |-> now] ELSE fs[q]],
           clock |-> now]

\* fs.mkdir(dir, {recursive: true}) for the directory of file p: [ok, dirs];
\* it throws when a file stands where a directory is needed
mkdirParents(fs, ds, p) ==
  IF \E d \in Range(Ancestors(p)) : IsFile(fs, d) THEN [ok |-> FALSE, dirs |-> ds]
  ELSE [ok |-> TRUE, dirs |-> ds \cup Range(Ancestors(p))]

-----------------------------------------------------------------------------
(* VaultService: notes *)

\* readNote(relativePath): [ok, note]; every failure to read or parse is
\* rethrown as "Note not found"
readNote(fs, relativePath) ==
  The({IF ~IsFile(fs, absolutePath) THEN NotRead
       ELSE The({IF r.ok THEN r ELSE NotRead :
                   r \in {parseNote(absolutePath, fs[absolutePath].text,
                                    fs[absolutePath].mtime)}}) :
         absolutePath \in {getAbsolutePath(relativePath)}})

\* an operation that threw error e, with what it had done by then
Thrown(e, fs, ds, clk) ==
  [ok |-> FALSE, err |-> e, files |-> fs, dirs |-> ds, clock |-> clk, note |-> NoNote]

\* the text written for a content and a frontmatter: [ok, text]; the
\* frontmatter goes through gray-matter when it has keys
FullContent(content, frontmatter) ==
  IF frontmatter # <<>> THEN stringify(content, frontmatter)
  ELSE [ok |-> TRUE, text |-> content]

\* createNote that refuses a path where a file stands
createNoteIfAbsent(fs, ds, clk, relativePath, content, frontmatter, createFolders) ==
  IF IsFile(fs, getAbsolutePath(relativePath)) THEN Thrown("EEXIST", fs, ds, clk)
  ELSE The({IF ~wrote.ok THEN Thrown("ENOENT", fs, ds, clk)
            ELSE [ok |-> TRUE, err |-> "", files |-> wrote.files, dirs |-> ds,
                  clock |-> wrote.clock,
                  note |-> readNote(wrote.files, relativePath).note] :
              wrote \in {writeFile(fs, IF createFolders
                                       THEN mkdirParents(fs, ds, getAbsolutePath(relativePath)).dirs
                                       ELSE ds,
                                   clk, getAbsolutePath(relativePath),
                                   FullContent(content, frontmatter).text)}})

\* createNote(relativePath, content, frontmatter, createFolders):
\* [ok, err, files, dirs, clock, note].  frontmatter <<>> stands for both
\* undefined and {}, which the code treats alike.  A throw after the write
\* leaves the write in place.
createNote(fs, ds, clk, relativePath, content, frontmatter, createFolders) ==
  The({IF ~made.ok THEN Thrown("EEXIST", fs, ds, clk)
       ELSE IF ~fm.ok THEN Thrown("YAMLException", fs, made.dirs, clk)
       ELSE The({IF ~wrote.ok THEN Thrown("ENOENT", fs, made.dirs, clk)
                 ELSE The({[ok |-> back.ok,
                            err |-> IF back.ok THEN "" ELSE ERROR_NOTE_NOT_FOUND,
                            files |-> wrote.files, dirs |-> made.dirs,
                            clock |-> wrote.clock, note |-> back.note] :
                             back \in {readNote(wrote.files, relativePath)}}) :
                   wrote \in {writeFile(fs, made.dirs, clk, absolutePath, fm.text)}}) :
         <<absolutePath, made, fm>> \in
           {The({<<p,
                   IF createFolders THEN mkdirParents(fs, ds, p) ELSE [ok |-> TRUE, dirs |-> ds],
                   FullContent(content, frontmatter)>> :
                   p \in {getAbsolutePath(relativePath)}})}})

\* the content updateNote writes: content when given, else the existing one;
\* with append, the existing content, a blank line and content, when content
\* is a non-empty string
NewContent(existing, hasContent, content, append) ==
  IF append /\ hasContent /\ content # "" THEN existing \o "\n\n" \o content
  ELSE IF hasContent THEN content
  ELSE existing

\* updateNote that writes the note whether or not it exists
updateNoteOrCreate(fs, ds, clk, relativePath, hasContent, content, frontmatter, append) ==
  createNote(fs, ds, clk, relativePath, content, frontmatter, FALSE)

\* updateNote(relativePath, content, frontmatter, append)
updateNote(fs, ds, clk, relativePath, hasContent, content, frontmatter, append) ==
  The({IF ~existing.ok THEN Thrown(ERROR_NOTE_NOT_FOUND, fs, ds, clk)
       ELSE The({IF ~fm.ok THEN Thrown("YAMLException", fs, ds, clk)
                 ELSE The({IF ~wrote.ok THEN Thrown("ENOENT", fs, ds, clk)
                           ELSE The({[ok |-> back.ok,
                                      err |-> IF back.ok THEN "" ELSE ERROR_NOTE_NOT_FOUND,
                                      files |-> wrote.files, dirs |-> ds,
                                      clock |-> wrote.clock, note |-> back.note] :
                                       back \in {readNote(wrote.files, relativePath)}}) :
                             wrote \in {writeFile(fs, ds, clk, getAbsolutePath(relativePath),
                                                  fm.text)}}) :
                   fm \in {FullContent(NewContent(existing.note.content, hasContent, content,
                                                  append),
                                       IF frontmatter # <<>>
                                       THEN SpreadMerge(existing.note.frontmatter, frontmatter)
                                       ELSE existing.note.frontmatter)}}) :
         existing \in {readNote(fs, relativePath)}})

\* deleteNote(relativePath): fs.unlink, any failure rethrown as "Note not found"
deleteNote(fs, relativePath) ==
  LET absolutePath == getAbsolutePath(relativePath)
  IN IF ~IsFile(fs, absolutePath) THEN [ok |-> FALSE, err |-> ERROR_NOTE_NOT_FOUND, files |-> fs]
     ELSE [ok |-> TRUE, err |-> "",
           files |-> [q \in DOMAIN fs \ {absolutePath} |-> fs[q]]]

-----------------------------------------------------------------------------
(* VaultService: scanning and link queries *)

\* The order in which a directory walk meets the files of the model: readdir
\* order is the file system's own; the model fixes one, depth first.
WalkOrder ==
  <<".obsidian/x.md", "a.md", "ab.md", "B.md", "Daily Notes/2024-01-15.md",
    "Daily Notes/2024-01-16.md", "d/.h.md", "d/b.markdown", "d/c.md", "e.MD", "n.txt">>

\* p lies under directory dir
Under(dir, p) == dir = "" \/ StartsWith(p, dir \o "/")

\* the names met on the way from directory dir down to p, p's own name last
NamesBelow(dir, p) == Split(IF dir = "" THEN p ELSE SliceFrom(p, Len(dir) + 1), "/")

\* scanDirectory without the descent into subdirectories
scanDirectoryFlat(fs, ds, dir) ==
  LET Entered(p) == /\ IsFile(fs, p)
                    /\ Under(dir, p)
                    /\ Len(NamesBelow(dir, p)) = 1
                    /\ ~StartsWith(Basename(p), ".")
                    /\ isMarkdownFile(Basename(p))
      Ok(r) == r.ok
  IN IF ~IsDir(ds, dir) THEN <<>>
     ELSE The({[i \in 1..Len(read) |-> read[i].note] :
                 read \in {SelectSeq([i \in 1..Len(WalkOrder) |->
                                        IF Entered(WalkOrder[i])
                                        THEN parseNote(WalkOrder[i], fs[WalkOrder[i]].text,
                                                       fs[WalkOrder[i]].mtime)
                                        ELSE NotRead],
                                     Ok)}})

\* scanDirectory(dir, notes): the notes of the markdown files under dir, in
\* walk order.  A name that starts with "." is skipped with all below it; a
\* file that cannot be read or parsed is skipped; a dir that cannot be read
\* (it is no directory) yields nothing.
scanDirectory(fs, ds, dir) ==
  LET Entered(p) == /\ IsFile(fs, p)
                    /\ Under(dir, p)
                    /\ \A n \in Range(NamesBelow(dir, p)) : ~StartsWith(n, ".")
                    /\ isMarkdownFile(Basename(p))
      Ok(r) == r.ok
  IN IF ~IsDir(ds, dir) THEN <<>>
     ELSE The({[i \in 1..Len(read) |-> read[i].note] :
                 read \in {SelectSeq([i \in 1..Len(WalkOrder) |->
                                        IF Entered(WalkOrder[i])
                                        THEN parseNote(WalkOrder[i], fs[WalkOrder[i]].text,
                                                       fs[WalkOrder[i]].mtime)
                                        ELSE NotRead],
                                     Ok)}})

\* getAllNotes(folder), folder "" standing for none given
getAllNotes(fs, ds, folder) ==
  scanDirectory(fs, ds, IF folder = "" THEN "" ELSE getAbsolutePath(folder))

\* notes.map(n => n.path)
PathsOf(notes) == [i \in 1..Len(notes) |-> notes[i].path]

\* notes.find(pred) as [found, note], hits being the positions of the notes
\* that pass pred: the first of them
FindFirst(notes, hits) ==
  IF hits = {} THEN [found |-> FALSE, note |-> NoNote]
  ELSE [found |-> TRUE, note |-> notes[Least(hits)]]

\* n.frontmatter?.title, "" when the note has none: titles are scalars and
\* aliases are lists in every vault of the model
TitleOf(n) ==
  IF FmHas(n.frontmatter, "title") THEN FmGet(n.frontmatter, "title").val[1] ELSE ""

HasTitle(n) == FmHas(n.frontmatter, "title")

AliasesOf(n) ==
  IF FmHas(n.frontmatter, "aliases") THEN Range(FmGet(n.frontmatter, "aliases").val) ELSE {}

\* the later of two finds to have found
OrElseLater(match, other) == IF other.found THEN other ELSE match

\* the first of two finds to have found
OrElse(match, other) == IF match.found THEN match ELSE other

\* findNoteByTitle without its last try, the partial name
FindByTitleExactly(notes, t) ==
  OrElse(FindFirst(notes, {i \in 1..Len(notes) : ToLowerCase(notes[i].name) = t}),
    OrElse(FindFirst(notes, {i \in 1..Len(notes) :
                               HasTitle(notes[i]) /\ ToLowerCase(TitleOf(notes[i])) = t}),
           FindFirst(notes, {i \in 1..Len(notes) :
                               \E a \in AliasesOf(notes[i]) : ToLowerCase(a) = t})))

\* findNoteByTitle on the notes read, t being the title in lower case: an
\* exact name, else a frontmatter title, else an alias, else a partial name
FindByTitle(notes, t) ==
  OrElse(FindFirst(notes, {i \in 1..Len(notes) : ToLowerCase(notes[i].name) = t}),
    OrElse(FindFirst(notes, {i \in 1..Len(notes) :
                               HasTitle(notes[i]) /\ ToLowerCase(TitleOf(notes[i])) = t}),
      OrElse(FindFirst(notes, {i \in 1..Len(notes) :
                                 \E a \in AliasesOf(notes[i]) : ToLowerCase(a) = t}),
             FindFirst(notes, {i \in 1..Len(notes) :
                                 Includes(ToLowerCase(notes[i].name), t)}))))

\* findNoteByTitle(title): [found, note]
findNoteByTitle(fs, ds, title) ==
  The({FindByTitle(notes, t) : <<notes, t>> \in {<<getAllNotes(fs, ds, ""), ToLowerCase(title)>>}})

\* getSuggestions(title, limit): the names of the first `limit` notes whose
\* name holds the title, letter case aside
getSuggestions(fs, ds, title, limit) ==
  LET Near(n) == Includes(ToLowerCase(n.name), ToLowerCase(title))
  IN The({[i \in 1..Min(limit, Len(near)) |-> near[i].name] :
            near \in {SelectSeq(getAllNotes(fs, ds, ""), Near)}})

\* linksMatch(linkTarget, note)
linksMatch(linkTarget, note) ==
  The({\/ cleanLink = ToLowerCase(note.name)
       \/ cleanLink = ToLowerCase(IF EndsWith(note.path, ".md")
                                  THEN SubSeq(note.path, 1, Len(note.path) - 3)
                                  ELSE note.path)
       \/ \E alias \in AliasesOf(note) : ToLowerCase(alias) = cleanLink :
         cleanLink \in {ToLowerCase(IF EndsWith(linkTarget, ".md")
                                    THEN SubSeq(linkTarget, 1, Len(linkTarget) - 3)
                                    ELSE linkTarget)}})

\* getBacklinks(targetPath): [ok, backlinks]; it throws when the target
\* cannot be read.  The target is left out by comparing note.path with the
\* request's targetPath as given.
getBacklinks(fs, ds, targetPath) ==
  The({IF ~targetNote.ok THEN [ok |-> FALSE, backlinks |-> <<>>]
       ELSE [ok |-> TRUE,
             backlinks |-> LET Links(n) ==
                                 /\ n.path # targetPath
                                 /\ \E i \in 1..Len(n.links) : linksMatch(n.links[i], targetNote.note)
                           IN PathsOf(SelectSeq(getAllNotes(fs, ds, ""), Links))] :
         targetNote \in {readNote(fs, targetPath)}})

-----------------------------------------------------------------------------
(* LinkTools and NoteTools: the pure parts of the tool handlers *)

\* getOrphans with no link resolved: every note is listed
getOrphansUnresolved(fs, ds) == PathsOf(getAllNotes(fs, ds, ""))

\* LinkTools.getOrphans: the paths of the notes no link resolves to, the
\* resolution being findNoteByTitle on every link of every note
getOrphans(fs, ds) ==
  The({The({LET Orphan(n) == n.path \notin hasBacklinks
            IN PathsOf(SelectSeq(allNotes, Orphan)) :
              hasBacklinks \in
                {UNION {UNION {The({IF targetNote.found THEN {targetNote.note.path} ELSE {} :
                                      targetNote \in {findNoteByTitle(fs, ds, n.links[i])}}) :
                                 i \in 1..Len(n.links)} :
                          n \in Range(allNotes)}}}) :
         allNotes \in {getAllNotes(fs, ds, "")}})

RECURSIVE SortByModified(_)
\* notes.sort((a, b) => b.modified - a.modified): newest first, and stable,
\* so notes modified at the same time keep their order
SortByModified(notes) ==
  IF notes = <<>> THEN <<>>
  ELSE The({LET Before(n) == n.modified >= notes[Len(notes)].modified
                After(n) == n.modified < notes[Len(notes)].modified
            IN SelectSeq(rest, Before) \o <<notes[Len(notes)]>> \o SelectSeq(rest, After) :
              rest \in {SortByModified(SubSeq(notes, 1, Len(notes) - 1))}})

\* slice(offset, limit) in place of slice(offset, offset + limit)
SliceToLimit(seq, from, to) ==
  IF from >= Min(to - from, Len(seq)) THEN <<>>
  ELSE SubSeq(seq, from + 1, Min(to - from, Len(seq)))

\* array.slice(from, to) for 0 <= from: elements from+1 .. to, cut at the end
Slice(seq, from, to) ==
  IF from >= Min(to, Len(seq)) THEN <<>> ELSE SubSeq(seq, from + 1, Min(to, Len(seq)))

\* NoteTools.listNotes(input): [notes, total]; tag "" stands for none given
listNotes(fs, ds, folder, tag, limit, offset) ==
  LET HasTag(n) == tag \in Range(n.tags)
  IN The({[notes |-> Slice(filteredNotes, offset, offset + limit),
           total |-> Len(filteredNotes)] :
            filteredNotes \in
              {SortByModified(IF tag # "" THEN SelectSeq(getAllNotes(fs, ds, folder), HasTag)
                              ELSE getAllNotes(fs, ds, folder))}})

-----------------------------------------------------------------------------
(* VaultService.searchContent and the tag queries *)

TITLE_EXACT == 100

TITLE_PARTIAL == 50

CONTENT_EARLY == 20

CONTENT_LATE == 5

SEARCH_SNIPPET_LENGTH == 150

\* a search result; a title match carries no snippet
SearchResult(note, score, matchType, snippet) ==
  [path |-> note.path, name |-> note.name, score |-> score, matchType |-> matchType,
   snippet |-> snippet]

\* the snippet of a content match at index: up to 50 characters before it and
\* SEARCH_SNIPPET_LENGTH from it on, with "..." where the content goes on
Snippet(content, index) ==
  (IF index - 50 > 0 THEN "..." ELSE "")
    \o Substring(content, index - 50, index + SEARCH_SNIPPET_LENGTH)
    \o (IF index + SEARCH_SNIPPET_LENGTH < Len(content) THEN "..." ELSE "")

\* the body of searchContent's loop for one note: [hit, result].  The name is
\* tried first, then the frontmatter title, then the content; a content match
\* in the first fifth of the content scores CONTENT_EARLY
MatchNote(note, searchQuery, caseSensitive) ==
  The({IF Includes(noteName, searchQuery)
       THEN [hit |-> TRUE,
             result |-> SearchResult(note,
                                     IF noteName = searchQuery THEN TITLE_EXACT
                                     ELSE TITLE_PARTIAL,
                                     "title", "")]
       ELSE IF TitleOf(note) # "" /\ Includes(fmTitle, searchQuery)
       THEN [hit |-> TRUE, result |-> SearchResult(note, TITLE_PARTIAL, "title", "")]
       ELSE The({[hit |-> index # -1,
                  result |-> SearchResult(note,
                                          IF index * 5 < Len(noteContent) THEN CONTENT_EARLY
                                          ELSE CONTENT_LATE,
                                          "content", Snippet(note.content, index))] :
                   index \in {IndexOf(noteContent, searchQuery)}}) :
         <<noteContent, noteName, fmTitle>> \in
           {IF caseSensitive THEN <<note.content, note.name, TitleOf(note)>>
            ELSE <<ToLowerCase(note.content), ToLowerCase(note.name),
                   ToLowerCase(TitleOf(note))>>}})

\* results left in the order the scan found them
LeftAsScanned(results) == results

RECURSIVE SortByScore(_)
\* results.sort((a, b) => b.score - a.score): highest first, and stable
SortByScore(results) ==
  IF results = <<>> THEN <<>>
  ELSE The({LET Before(r) == r.score >= results[Len(results)].score
                After(r) == r.score < results[Len(results)].score
            IN SelectSeq(rest, Before) \o <<results[Len(results)]>> \o SelectSeq(rest, After) :
              rest \in {SortByScore(SubSeq(results, 1, Len(results) - 1))}})

\* searchContent(query, {folder, tag, caseSensitive, limit}): the results, at
\* most one per note; folder and tag "" and limit 0 stand for none given
searchContent(fs, ds, query, folder, tag, caseSensitive, limit) ==
  LET Hit(m) == m.hit
  IN The({The({IF limit # 0 THEN Slice(results, 0, limit) ELSE results :
                 results \in {SortByScore([i \in 1..Len(matched) |-> matched[i].result])}}) :
            matched \in
              {The({SelectSeq([i \in 1..Len(notes) |->
                                 IF tag # "" /\ tag \notin Range(notes[i].tags)
                                 THEN [hit |-> FALSE]
                                 ELSE MatchNote(notes[i],
                                                IF caseSensitive THEN query
                                                ELSE ToLowerCase(query),
                                                caseSensitive)],
                              Hit) :
                      notes \in {getAllNotes(fs, ds, folder)}})}})

\* searchTags that takes the tag asked for as a prefix of characters
searchTagsByPrefix(fs, ds, tag) ==
  LET Matches(note) ==
        \E t \in Range(note.tags) :
          StartsWith(t, IF StartsWith(tag, "#") THEN SliceFrom(tag, 1) ELSE tag)
  IN SelectSeq(getAllNotes(fs, ds, ""), Matches)

\* SearchTools.searchTags(input): the notes with a tag equal to the tag asked
\* for, one leading "#" removed, or below it in the tag hierarchy
searchTags(fs, ds, tag) ==
  LET Matches(note) ==
        \E t \in Range(note.tags) :
          \E searchTag \in {IF StartsWith(tag, "#") THEN SliceFrom(tag, 1) ELSE tag} :
            t = searchTag \/ StartsWith(t, searchTag \o "/")
  IN SelectSeq(getAllNotes(fs, ds, ""), Matches)

\* a.localeCompare(b) for strings of tag characters, as -1, 0 or 1: the first
\* place where the two differ as letters decides, by the order of the root
\* collation (punctuation, digits, letters), a shorter string going first;
\* strings that differ in letter case only go lower case first
localeCompare(a, b) ==
  LET Differ(x, y) ==
        {i \in 1..Min(Len(x), Len(y)) : SubSeq(x, i, i) # SubSeq(y, i, i)}
  IN The({IF Differ(la, lb) # {}
          THEN The({IF IndexOf(order, SubSeq(la, i, i)) < IndexOf(order, SubSeq(lb, i, i))
                    THEN -1 ELSE 1 :
                      <<i, order>> \in {<<Least(Differ(la, lb)),
                                          "_-/0123456789abcdefghijklmnopqrstuvwxyz">>}})
          ELSE IF Len(a) # Len(b) THEN (IF Len(a) < Len(b) THEN -1 ELSE 1)
          ELSE IF a = b THEN 0
          ELSE The({IF SubSeq(a, i, i) = SubSeq(la, i, i) THEN -1 ELSE 1 :
                      i \in {Least(Differ(a, b))}}) :
            <<la, lb>> \in {<<ToLowerCase(a), ToLowerCase(b)>>}})

RECURSIVE SortByCount(_)
\* tags.sort((a, b) => b.count - a.count): most used first, and stable
SortByCount(tags) ==
  IF tags = <<>> THEN <<>>
  ELSE The({LET Before(t) == t.count >= tags[Len(tags)].count
                After(t) == t.count < tags[Len(tags)].count
            IN SelectSeq(rest, Before) \o <<tags[Len(tags)]>> \o SelectSeq(rest, After) :
              rest \in {SortByCount(SubSeq(tags, 1, Len(tags) - 1))}})

RECURSIVE SortByName(_)
\* tags.sort((a, b) => a.tag.localeCompare(b.tag)), stable
SortByName(tags) ==
  IF tags = <<>> THEN <<>>
  ELSE The({LET Before(t) == localeCompare(t.tag, tags[Len(tags)].tag) <= 0
                After(t) == localeCompare(t.tag, tags[Len(tags)].tag) > 0
            IN SelectSeq(rest, Before) \o <<tags[Len(tags)]>> \o SelectSeq(rest, After) :
              rest \in {SortByName(SubSeq(tags, 1, Len(tags) - 1))}})

RECURSIVE Flatten(_)
Flatten(seqs) == IF seqs = <<>> THEN <<>> ELSE Head(seqs) \o Flatten(Tail(seqs))

\* getAllTags(): every tag with the number of notes that carry it, in the
\* order of the counts, tags of one count in the order they were first met
getAllTags(fs, ds) ==
  The({SortByCount([i \in 1..Len(met) |->
                      [tag |-> met[i],
                       count |-> Cardinality({j \in 1..Len(notes) :
                                                met[i] \in Range(notes[j].tags)})]]) :
         <<notes, met>> \in
           {The({<<ns, AddAll(<<>>, Flatten([j \in 1..Len(ns) |-> ns[j].tags]))>> :
                   ns \in {getAllNotes(fs, ds, "")}})}})

\* listTags that leaves the tags in the order of getAllTags
listTagsAsCounted(fs, ds, sortBy) == getAllTags(fs, ds)

\* SearchTools.listTags(input): sortBy is "count" or "name"
listTags(fs, ds, sortBy) ==
  IF sortBy = "name" THEN SortByName(getAllTags(fs, ds)) ELSE getAllTags(fs, ds)

\* SearchTools.searchFrontmatter(input): the notes whose frontmatter has the
\* field, or has it with the value asked for (as the one value, or as one
\* item of a list); input.limit is not read
searchFrontmatter(fs, ds, field, hasValue, value, limit) ==
  LET Matches(note) ==
        /\ note.frontmatter # <<>>
        /\ FmHas(note.frontmatter, field)
        /\ hasValue => value \in Range(FmGet(note.frontmatter, field).val)
  IN SelectSeq(getAllNotes(fs, ds, ""), Matches)

-----------------------------------------------------------------------------
(* VaultService.getUnlinkedReferences *)

RECURSIVE CountFrom(_, _, _)
\* the matches a global regular expression finds among the places where it
\* can match: the first at or after from, then on from the end of each match
CountFrom(places, from, len) ==
  IF {i \in places : i >= from} = {} THEN 0
  ELSE 1 + CountFrom(places, Least({i \in places : i >= from}) + Max(len, 1), len)

\* (content.match(new RegExp(`\\b${term}\\b`, 'gi')) || []).length, for a term
\* of letters, digits, "_" and spaces: the places where the term stands,
\* letter case aside, with a word boundary on either side
WordMatches(content, term) ==
  LET IsWord(c) == InClass(c, LowerLetters \o UpperLetters \o Digits \o "_")
      Boundary(k) == IsWord(CharAt(content, k)) # IsWord(CharAt(content, k + 1))
  IN The({CountFrom({i \in 0..(Len(content) - Len(term)) :
                       /\ SubSeq(lower, i + 1, i + Len(term)) = lowerTerm
                       /\ Boundary(i)
                       /\ Boundary(i + Len(term))},
                    0, Len(term)) :
            <<lower, lowerTerm>> \in {<<ToLowerCase(content), ToLowerCase(term)>>}})

\* the body of getUnlinkedReferences's loop for one note: [hit, result], the
\* result being for the first search term that the content mentions
MentionOf(note, targetPath, targetNote, searchTerms) ==
  IF \/ note.path = targetPath
     \/ \E i \in 1..Len(note.links) : linksMatch(note.links[i], targetNote)
  THEN [hit |-> FALSE]
  ELSE The({IF mentioned = {} THEN [hit |-> FALSE]
            ELSE [hit |-> TRUE,
                  result |-> SearchResult(note,
                                          WordMatches(note.content,
                                                      searchTerms[Least(mentioned)]),
                                          "content",
                                          Snippet(note.content,
                                                  IndexOf(ToLowerCase(note.content),
                                                          ToLowerCase(searchTerms[Least(mentioned)]))))] :
              mentioned \in {{k \in 1..Len(searchTerms) :
                                WordMatches(note.content, searchTerms[k]) > 0}}})

\* getUnlinkedReferences(targetPath, limit): [ok, results]; it throws when
\* the target cannot be read.  The target is left out by comparing note.path
\* with the request's targetPath as given.
getUnlinkedReferences(fs, ds, targetPath, limit) ==
  The({IF ~targetNote.ok THEN [ok |-> FALSE, results |-> <<>>]
       ELSE [ok |-> TRUE,
             results |->
               LET Hit(m) == m.hit
               IN The({Slice([i \in 1..Len(hits) |-> hits[i].result], 0, limit) :
                         hits \in {SelectSeq([i \in 1..Len(notes) |->
                                      MentionOf(notes[i], targetPath, targetNote.note,
                                                <<targetNote.note.name>>
                                                  \o (IF FmHas(targetNote.note.frontmatter, "aliases")
                                                      THEN FmGet(targetNote.note.frontmatter,
                                                                 "aliases").val
                                                      ELSE <<>>))], Hit)}})] :
         <<targetNote, notes>> \in {<<readNote(fs, targetPath), getAllNotes(fs, ds, "")>>}})

-----------------------------------------------------------------------------
(* VaultService.getVaultStats *)

\* getVaultStats(): the folders counted are those scanFolders enters, none
\* with a name that starts with "."; a note counts as an orphan when no link
\* of any note is, character for character, its name or its path
getVaultStats(fs, ds) ==
  The({[totalNotes |-> Len(notes),
        totalTags |-> Len(getAllTags(fs, ds)),
        totalLinks |-> Len(links),
        totalFolders |-> Cardinality({d \in ds : \A n \in Range(Split(d, "/")) :
                                                   ~StartsWith(n, ".")}),
        averageNoteLength |->
          IF Len(notes) > 0
          THEN (2 * Len(Join([i \in 1..Len(notes) |-> notes[i].content], "")) + Len(notes))
                 \div (2 * Len(notes))
          ELSE 0,
        orphanNotes |-> Cardinality({i \in 1..Len(notes) :
                                       /\ notes[i].name \notin Range(links)
                                       /\ notes[i].path \notin Range(links)})] :
         <<notes, links>> \in
           {The({<<ns, Flatten([i \in 1..Len(ns) |-> ns[i].links])>> :
                   ns \in {getAllNotes(fs, ds, "")}})}})

-----------------------------------------------------------------------------
(* NavigationTools.getDailyNote *)

\* the number a string of decimal digits writes
RECURSIVE ToNumber(_)
ToNumber(s) ==
  IF s = "" THEN 0
  ELSE 10 * ToNumber(SubSeq(s, 1, Len(s) - 1))
       + (CHOOSE d \in 0..9 : CharAt(Digits, d + 1) = CharAt(s, Len(s)))

\* n in decimal, padded with zeros to width w
RECURSIVE Pad(_, _)
Pad(n, w) == IF w = 0 THEN "" ELSE Pad(n \div 10, w - 1) \o CharAt(Digits, (n % 10) + 1)

DaysInMonth(y, m) ==
  IF m = 2 THEN (IF y % 4 = 0 /\ (y % 100 # 0 \/ y % 400 = 0) THEN 29 ELSE 28)
  ELSE IF m \in {4, 6, 9, 11} THEN 30 ELSE 31

\* new Date(input).toISOString().split('T')[0] for an input the schema
\* accepts (YYYY-MM-DD in digits): [ok, dateStr].  The string is read as a UTC
\* date and written back from its year, month and day; toISOString throws on
\* an invalid date.  A day past its month's end is not among the model's inputs.
IsoDate(input) ==
  LET y == ToNumber(SubSeq(input, 1, 4))
      m == ToNumber(SubSeq(input, 6, 7))
      d == ToNumber(SubSeq(input, 9, 10))
  IN [ok |-> m \in 1..12 /\ d \in 1..DaysInMonth(y, m),
      dateStr |-> Pad(y, 4) \o "-" \o Pad(m, 2) \o "-" \o Pad(d, 2)]

\* the instant of a request that names no date
NowIso == "2024-01-16T09:30:00.000Z"

DailyContent(dateStr) == "# " \o dateStr \o "\n\n## Tasks\n\n- [ ] \n\n## Notes\n\n"

DailyPath(dateStr) == "Daily Notes/" \o dateStr \o ".md"

\* getDailyNote that writes the day's note anew on every request
getDailyNoteRewriting(fs, ds, clk, date, create) ==
  IF ~IsoDate(date).ok THEN Thrown("Invalid time value", fs, ds, clk)
  ELSE createNote(fs, ds, clk, DailyPath(IsoDate(date).dateStr),
                  DailyContent(IsoDate(date).dateStr),
                  <<Entry("created", <<IsoDate(date).dateStr \o "T00:00:00.000Z">>, FALSE),
                    Entry("tags", <<"daily-note">>, TRUE)>>,
                  TRUE)

\* getDailyNote(input): [ok, err, files, dirs, clock, note]; date "" stands
\* for none given.  A note that reads is returned; one that does not is
\* created when create is set.
getDailyNote(fs, ds, clk, date, create) ==
  The({IF ~iso.ok THEN Thrown("Invalid time value", fs, ds, clk)
       ELSE The({IF existing.ok
                 THEN [ok |-> TRUE, err |-> "", files |-> fs, dirs |-> ds, clock |-> clk,
                       note |-> existing.note]
                 ELSE IF ~create THEN Thrown("Daily note does not exist", fs, ds, clk)
                 ELSE createNote(fs, ds, clk, DailyPath(iso.dateStr), DailyContent(iso.dateStr),
                                 <<Entry("created",
                                         <<IF date = "" THEN NowIso
                                           ELSE iso.dateStr \o "T00:00:00.000Z">>,
                                         FALSE),
                                   Entry("tags", <<"daily-note">>, TRUE)>>,
                                 TRUE) :
                   existing \in {readNote(fs, DailyPath(iso.dateStr))}}) :
         iso \in {IF date = "" THEN [ok |-> TRUE, dateStr |-> SubSeq(NowIso, 1, 10)]
                  ELSE IsoDate(date)}})

-----------------------------------------------------------------------------
(* The tool handlers: one action per tool request.  A handler validates the *)
(* request against its schema, runs the tool and answers with its result or *)
(* with the error it threw; last records the request and the answer.        *)

\* an answer: the note of a note tool, the paths (or link targets) and the
\* total of a listing tool
Answer(op, args, ok, err, note, paths, total) ==
  [op |-> op, args |-> args, ok |-> ok, err |-> err, note |-> note, paths |-> paths,
   total |-> total]

\* the longest note content a request may produce
MaxContentLen == 20

\* obsidian_create_note: NoteTools.createNote gives the path its ".md"
CreateNote(path, content, frontmatter, createFolders) ==
  \E notePath \in {IF EndsWith(path, ".md") THEN path ELSE path \o ".md"} :
    \E r \in {createNote(files, dirs, clock, notePath, content, frontmatter, createFolders)} :
      /\ files' = r.files
      /\ dirs' = r.dirs
      /\ clock' = r.clock
      /\ UNCHANGED calls
      /\ last' = Answer("createNote",
                        [path |-> path, notePath |-> notePath, content |-> content,
                         frontmatter |-> frontmatter, createFolders |-> createFolders],
                        r.ok, r.err, r.note, <<>>, 0)

\* obsidian_update_note
UpdateNote(path, hasContent, content, frontmatter, append) ==
  \E r \in {updateNote(files, dirs, clock, path, hasContent, content, frontmatter, append)} :
    /\ r.ok => Len(r.note.content) <= MaxContentLen
    /\ files' = r.files
    /\ dirs' = r.dirs
    /\ clock' = r.clock
    /\ UNCHANGED calls
    /\ last' = Answer("updateNote",
                      [path |-> path, hasContent |-> hasContent, content |-> content,
                       frontmatter |-> frontmatter, append |-> append],
                      r.ok, r.err, r.note, <<>>, 0)

\* obsidian_delete_note without the check of the confirm flag
DeleteNoteUnconfirmed(path, confirm) ==
  \E r \in {deleteNote(files, path)} :
    /\ files' = r.files
    /\ UNCHANGED <<dirs, clock>>
    /\ UNCHANGED calls
    /\ last' = Answer("deleteNote", [path |-> path, confirm |-> confirm],
                      r.ok, r.err, NoNote, <<>>, 0)

\* obsidian_delete_note; confirm is "true", "false" or "omitted".  The schema
\* requires the flag, so a request without it fails validation; the tool
\* throws unless the flag is true.
DeleteNote(path, confirm) ==
  \E r \in {IF confirm = "omitted" THEN [ok |-> FALSE, err |-> "ZodError", files |-> files]
            ELSE IF confirm # "true" THEN [ok |-> FALSE, err |-> ERROR_CONFIRM, files |-> files]
            ELSE deleteNote(files, path)} :
    /\ files' = r.files
    /\ UNCHANGED <<dirs, clock>>
    /\ UNCHANGED calls
    /\ last' = Answer("deleteNote", [path |-> path, confirm |-> confirm],
                      r.ok, r.err, NoNote, <<>>, 0)

\* obsidian_get_note by path
GetNote(path) ==
  \E r \in {readNote(files, path)} :
    /\ UNCHANGED <<files, dirs, clock>>
    /\ UNCHANGED calls
    /\ last' = Answer("getNote", [path |-> path], r.ok,
                      IF r.ok THEN "" ELSE ERROR_NOTE_NOT_FOUND, r.note, <<>>, 0)

\* obsidian_get_note by title; when no note is found the error carries the
\* suggestions, up to five names, kept in paths
GetNoteByTitle(title) ==
  \E r \in {findNoteByTitle(files, dirs, title)} :
    \E suggestions \in {IF r.found THEN <<>> ELSE getSuggestions(files, dirs, title, 5)} :
      /\ title # ""
      /\ UNCHANGED <<files, dirs, clock>>
      /\ UNCHANGED calls
      /\ last' = Answer("getNoteByTitle", [title |-> title], r.found,
                        IF r.found THEN "" ELSE ERROR_NOTE_NOT_FOUND, r.note,
                        suggestions, Len(suggestions))

\* obsidian_get_daily_note
GetDailyNote(date, create) ==
  \E r \in {getDailyNote(files, dirs, clock, date, create)} :
    /\ files' = r.files
    /\ dirs' = r.dirs
    /\ clock' = r.clock
    /\ UNCHANGED calls
    /\ last' = Answer("getDailyNote", [date |-> date, create |-> create],
                      r.ok, r.err, r.note, <<>>, 0)

\* obsidian_get_backlinks
GetBacklinks(path) ==
  \E r \in {getBacklinks(files, dirs, path)} :
    /\ UNCHANGED <<files, dirs, clock>>
    /\ UNCHANGED calls
    /\ last' = Answer("getBacklinks", [path |-> path], r.ok,
                      IF r.ok THEN "" ELSE ERROR_NOTE_NOT_FOUND, NoNote,
                      r.backlinks, Len(r.backlinks))

\* obsidian_get_outlinks: the links of the note read
GetOutlinks(path) ==
  \E r \in {readNote(files, path)} :
    /\ UNCHANGED <<files, dirs, clock>>
    /\ UNCHANGED calls
    /\ last' = Answer("getOutlinks", [path |-> path], r.ok,
                      IF r.ok THEN "" ELSE ERROR_NOTE_NOT_FOUND, NoNote,
                      r.note.links, Len(r.note.links))

\* obsidian_get_orphans
GetOrphans ==
  \E r \in {getOrphans(files, dirs)} :
    /\ UNCHANGED <<files, dirs, clock>>
    /\ UNCHANGED calls
    /\ last' = Answer("getOrphans", [none |-> TRUE], TRUE, "", NoNote, r, Len(r))

\* obsidian_list_notes; the schema accepts a positive limit and an offset of
\* zero or more
ListNotes(folder, tag, limit, offset) ==
  \E r \in {listNotes(files, dirs, folder, tag, limit, offset)} :
    /\ limit >= 1 /\ offset >= 0
    /\ UNCHANGED <<files, dirs, clock>>
    /\ UNCHANGED calls
    /\ last' = Answer("listNotes",
                      [folder |-> folder, tag |-> tag, limit |-> limit, offset |-> offset],
                      TRUE, "", NoNote,
                      PathsOf(r.notes), r.total)

\* obsidian_search_content; the schema gives every request a positive limit
SearchContent(query, folder, tag, caseSensitive, limit) ==
  \E r \in {searchContent(files, dirs, query, folder, tag, caseSensitive, limit)} :
    /\ limit >= 1
    /\ UNCHANGED <<files, dirs, clock>>
    /\ UNCHANGED calls
    /\ last' = [results |-> r]
                 @@ Answer("searchContent",
                           [query |-> query, folder |-> folder, tag |-> tag,
                            caseSensitive |-> caseSensitive, limit |-> limit],
                           TRUE, "", NoNote, PathsOf(r), Len(r))

\* obsidian_search_tags
SearchTags(tag) ==
  \E r \in {searchTags(files, dirs, tag)} :
    /\ UNCHANGED <<files, dirs, clock>>
    /\ UNCHANGED calls
    /\ last' = Answer("searchTags", [tag |-> tag], TRUE, "", NoNote, PathsOf(r), Len(r))

\* ListTagsSchema.parse(args).sortBy: z.enum(['name', 'count']).default('count');
\* "" stands for a request that gives no sortBy
ListTagsSchema(sortBy) == IF sortBy = "" THEN "count" ELSE sortBy

\* obsidian_list_tags: the request is parsed, then listed; `given` keeps the
\* sortBy of the request as it came
ListTags(sortBy) ==
  \E r \in {listTags(files, dirs, ListTagsSchema(sortBy))} :
    /\ UNCHANGED <<files, dirs, clock>>
    /\ UNCHANGED calls
    /\ last' = [results |-> r]
                 @@ Answer("listTags",
                           [sortBy |-> ListTagsSchema(sortBy), given |-> sortBy],
                           TRUE, "", NoNote,
                           [i \in 1..Len(r) |-> r[i].tag], Len(r))

-----------------------------------------------------------------------------
(* NavigationTools.getGraphView.  The loop of getConnectedNotes is taken    *)
(* one iteration at a time; calls holds the traversal: the notes scanned,   *)
(* the queue, the paths included and the notes found so far.                *)

\* note.backlinks: parseNote builds the note without this field and nothing
\* else sets it, so it is undefined on every note
BacklinksOf(note) == <<>>

\* allNotes.find(n => n.path === link || n.path === `${link}.md` || n.name === link)
FindLinked(allNotes, link) ==
  FindFirst(allNotes, {i \in 1..Len(allNotes) :
                         \/ allNotes[i].path = link
                         \/ allNotes[i].path = link \o ".md"
                         \/ allNotes[i].name = link})

\* what one iteration pushes on the queue for the note it has just included
Neighbours(note, allNotes, included, depth) ==
  LET Found(r) == r.found /\ r.note.path \notin included
      Fresh(b) == b \notin included
  IN [i \in 1..Len(SelectSeq([k \in 1..Len(note.links) |-> FindLinked(allNotes, note.links[k])],
                             Found)) |->
        [path |-> SelectSeq([k \in 1..Len(note.links) |->
                               FindLinked(allNotes, note.links[k])], Found)[i].note.path,
         depth |-> depth + 1]]
     \o [i \in 1..Len(SelectSeq(BacklinksOf(note), Fresh)) |->
           [path |-> SelectSeq(BacklinksOf(note), Fresh)[i], depth |-> depth + 1]]

\* an iteration that does not look at the set of included paths
ConnectedStepRevisiting(t) ==
  The({The({IF current.depth > t.maxDepth \/ ~found.found
            THEN [t EXCEPT !.queue = Tail(t.queue)]
            ELSE [t EXCEPT !.included = t.included \cup {current.path},
                           !.result = Append(t.result, found.note),
                           !.queue = Tail(t.queue)
                                     \o (IF current.depth < t.maxDepth
                                         THEN Neighbours(found.note, t.allNotes, {},
                                                         current.depth)
                                         ELSE <<>>)] :
              found \in {FindFirst(t.allNotes, {i \in 1..Len(t.allNotes) :
                                                  t.allNotes[i].path = current.path})}}) :
         current \in {Head(t.queue)}})

\* one iteration of `while (queue.length > 0 && result.length < maxNotes)`:
\* the traversal after it
ConnectedStep(t) ==
  The({The({IF current.path \in t.included \/ current.depth > t.maxDepth \/ ~found.found
            THEN [t EXCEPT !.queue = Tail(t.queue)]
            ELSE [t EXCEPT !.included = t.included \cup {current.path},
                           !.result = Append(t.result, found.note),
                           !.queue = Tail(t.queue)
                                     \o (IF current.depth < t.maxDepth
                                         THEN Neighbours(found.note, t.allNotes,
                                                         t.included \cup {current.path},
                                                         current.depth)
                                         ELSE <<>>)] :
              found \in {FindFirst(t.allNotes, {i \in 1..Len(t.allNotes) :
                                                  t.allNotes[i].path = current.path})}}) :
         current \in {Head(t.queue)}})

RECURSIVE SortByConnections(_)
\* allNotes.sort((a, b) => (b.links.length + (b.backlinks?.length || 0))
\*                         - (a.links.length + (a.backlinks?.length || 0))), stable
SortByConnections(notes) ==
  IF notes = <<>> THEN <<>>
  ELSE The({LET Before(n) == Len(n.links) + Len(BacklinksOf(n))
                               >= Len(notes[Len(notes)].links)
                                  + Len(BacklinksOf(notes[Len(notes)]))
                After(n) == Len(n.links) + Len(BacklinksOf(n))
                              < Len(notes[Len(notes)].links)
                                + Len(BacklinksOf(notes[Len(notes)]))
            IN SelectSeq(rest, Before) \o <<notes[Len(notes)]>> \o SelectSeq(rest, After) :
              rest \in {SortByConnections(SubSeq(notes, 1, Len(notes) - 1))}})

\* buildGraphData(notes): a node for each note, an edge for each link of a
\* note that resolves to one of the notes
buildGraphData(notes) ==
  [nodes |-> PathsOf(notes),
   edges |-> Flatten([i \in 1..Len(notes) |->
               LET Found(r) == r.found
               IN [k \in 1..Len(SelectSeq([j \in 1..Len(notes[i].links) |->
                                             FindLinked(notes, notes[i].links[j])], Found)) |->
                     [source |-> notes[i].path,
                      target |-> SelectSeq([j \in 1..Len(notes[i].links) |->
                                              FindLinked(notes, notes[i].links[j])],
                                           Found)[k].note.path]]])]

\* no traversal under way
Idle ==
  [pc |-> "none", centralNote |-> "", maxDepth |-> 0, maxNotes |-> 0, allNotes |-> <<>>,
   queue |-> <<>>, included |-> {}, result |-> <<>>]

\* the request is answered with the graph of the notes to include
GraphAnswered(notesToInclude, centralNote, maxDepth, maxNotes) ==
  \E graphData \in {buildGraphData(notesToInclude)} :
    last' = [edges |-> graphData.edges]
              @@ Answer("getGraphView",
                        [centralNote |-> centralNote, maxDepth |-> maxDepth,
                         maxNotes |-> maxNotes],
                        TRUE, "", NoNote, graphData.nodes, Len(graphData.nodes))

\* obsidian_get_graph_view arrives: without a central note the most
\* connected notes are taken and the request is answered; with one,
\* getConnectedNotes starts from it (centralNote "" stands for none given)
\* and the request has no answer yet.  One request is followed on each
\* vault: the graph view writes nothing, so a later request meets the vault
\* the first one met.
GetGraphViewCalled(centralNote, maxDepth, maxNotes) ==
  /\ calls.pc = "none"
  /\ maxDepth >= 1 /\ maxNotes >= 1
  /\ \E allNotes \in {getAllNotes(files, dirs, "")} :
       IF centralNote = ""
       THEN /\ GraphAnswered(Slice(SortByConnections(allNotes), 0, maxNotes),
                             centralNote, maxDepth, maxNotes)
            /\ calls' = [Idle EXCEPT !.pc = "done"]
       ELSE /\ calls' = [pc |-> "loop", centralNote |-> centralNote, maxDepth |-> maxDepth,
                         maxNotes |-> maxNotes, allNotes |-> allNotes,
                         queue |-> <<[path |-> centralNote, depth |-> 0]>>,
                         included |-> {}, result |-> <<>>]
            /\ last' = Answer("none", [none |-> TRUE], TRUE, "", NoNote, <<>>, 0)
  /\ UNCHANGED <<files, dirs, clock>>

\* the loop of getConnectedNotes goes round once
ConnectedNotesStep ==
  /\ calls.pc = "loop"
  /\ calls.queue # <<>> /\ Len(calls.result) < calls.maxNotes
  /\ calls' = ConnectedStep(calls)
  /\ UNCHANGED <<files, dirs, clock, last>>

\* the loop has ended: getConnectedNotes returns result
GetGraphViewAnswered ==
  /\ calls.pc = "loop"
  /\ ~(calls.queue # <<>> /\ Len(calls.result) < calls.maxNotes)
  /\ GraphAnswered(calls.result, calls.centralNote, calls.maxDepth, calls.maxNotes)
  /\ calls' = [Idle EXCEPT !.pc = "done"]
  /\ UNCHANGED <<files, dirs, clock>>

\* obsidian_get_unlinked_references; the schema accepts a positive limit
GetUnlinkedReferences(path, limit) ==
  \E r \in {getUnlinkedReferences(files, dirs, path, limit)} :
    /\ limit >= 1
    /\ UNCHANGED <<files, dirs, clock>>
    /\ UNCHANGED calls
    /\ last' = [results |-> r.results]
                 @@ Answer("getUnlinkedReferences", [path |-> path, limit |-> limit], r.ok,
                           IF r.ok THEN "" ELSE ERROR_NOTE_NOT_FOUND, NoNote,
                           PathsOf(r.results), Len(r.results))

\* obsidian_get_vault_stats
GetVaultStats ==
  \E r \in {getVaultStats(files, dirs)} :
    /\ UNCHANGED <<files, dirs, clock>>
    /\ UNCHANGED calls
    /\ last' = [stats |-> r]
                 @@ Answer("getVaultStats", [none |-> TRUE], TRUE, "", NoNote, <<>>,
                           r.totalNotes)

\* obsidian_search_frontmatter; the schema accepts a limit from 1 to 1000;
\* hasValue tells whether the request gives a value
SearchFrontmatter(field, hasValue, value, limit) ==
  \E r \in {searchFrontmatter(files, dirs, field, hasValue, value, limit)} :
    /\ limit >= 1
    /\ UNCHANGED <<files, dirs, clock>>
    /\ UNCHANGED calls
    /\ last' = Answer("searchFrontmatter",
                      [field |-> field, hasValue |-> hasValue, value |-> value,
                       limit |-> limit],
                      TRUE, "", NoNote, PathsOf(r), Len(r))

-----------------------------------------------------------------------------
(* Spec: the note tools on a vault that starts empty *)

NoFrontmatter == <<>>

Draft == <<Entry("status", <<"draft">>, FALSE)>>

CreateRequests ==
  ({"a.md"} \X {"Original", ""} \X {NoFrontmatter, Draft} \X {TRUE})
    \cup ({"d/c"} \X {"Original"} \X {NoFrontmatter} \X BOOLEAN)

UpdateRequests ==
  ({"a.md"} \X {TRUE} \X {"\\nAppended", ""} \X {NoFrontmatter} \X BOOLEAN)
    \cup ({"a.md"} \X {FALSE} \X {""} \X {Draft} \X {FALSE})

NotePaths == {"a.md", "d/c.md", "Daily Notes/2024-01-15.md"}

Dates == {"2024-01-15", "2024-13-01"}

Init ==
  /\ files = <<>>
  /\ dirs = {}
  /\ clock = 0
  /\ last = Answer("none", [none |-> TRUE], TRUE, "", NoNote, <<>>, 0)
  /\ calls = <<>>

Next ==
  \/ \E r \in CreateRequests : CreateNote(r[1], r[2], r[3], r[4])
  \/ \E r \in UpdateRequests : UpdateNote(r[1], r[2], r[3], r[4], r[5])
  \/ \E p \in NotePaths, c \in {"true", "false", "omitted"} : DeleteNote(p, c)
  \/ \E p \in NotePaths : GetNote(p)
  \/ \E d \in Dates, c \in BOOLEAN : GetDailyNote(d, c)

Spec == Init /\ [][Next]_vars

-----------------------------------------------------------------------------
(* Vaults as they stand on disk when a query arrives *)

\* no file at a path
Absent == [text |-> "", mtime |-> 0]

File(text, mtime) == [text |-> text, mtime |-> mtime]

\* the vault holding the files a choice names, and the directories they need
VaultOf(choice) ==
  [p \in {q \in DOMAIN choice : choice[q] # Absent} |-> choice[p]]

DirsOf(fs) == UNION {Range(Ancestors(p)) : p \in DOMAIN fs}

-----------------------------------------------------------------------------
(* SpecLinks: the link tools on vaults whose notes link to one another by *)
(* name, by path, by alias, to themselves and to external addresses        *)

LinkTexts ==
  [a |-> {"[[B]]", "[[d/b]]", "[[a]] [[BEE]]",
          "[[https://x.io]] [s](http://x.io) [c](d/c.md)"},
   b |-> {"---\naliases:\n  - bee\n---\n[[A]]", "text"},
   m |-> {"[[d/c.md]]", "text"},
   c |-> {"text", "![[B.md]]"}]

LinkFiles(texts) == {Absent} \cup {File(t, 1) : t \in texts}

LinkVaults ==
  {VaultOf(("a.md" :> fa) @@ ("B.md" :> fb) @@ ("d/b.markdown" :> fm) @@ ("d/c.md" :> fc)) :
     fa \in LinkFiles(LinkTexts.a), fb \in LinkFiles(LinkTexts.b),
     fm \in LinkFiles(LinkTexts.m), fc \in LinkFiles(LinkTexts.c)}

LinkPaths == {"a.md", "B.md", "d/b.markdown", "d/c.md"}

InitLinks ==
  /\ files \in LinkVaults
  /\ dirs = DirsOf(files)
  /\ clock = 1
  /\ last = Answer("none", [none |-> TRUE], TRUE, "", NoNote, <<>>, 0)
  /\ calls = <<>>

NextLinks ==
  \/ \E p \in LinkPaths \cup {"/a.md"} : GetBacklinks(p)
  \/ \E p \in LinkPaths : GetOutlinks(p)
  \/ GetOrphans
  \/ GetVaultStats

SpecLinks == InitLinks /\ [][NextLinks]_vars

-----------------------------------------------------------------------------
(* SpecList: listNotes on vaults whose notes differ in age and in tags *)

\* the largest limit and the largest offset of a listing request
MaxLimit == 2

MaxOffset == 3

ListFiles(text) == {Absent} \cup {File(text, m) : m \in 1..MaxClock}

ListVaults ==
  {VaultOf(("a.md" :> fa) @@ ("B.md" :> fb) @@ ("d/c.md" :> fc)) :
     fa \in ListFiles("#t one"), fb \in ListFiles("#t two"), fc \in ListFiles("plain")}

\* the folder and the tag of a listing request, "" for none
ListFilters == {<<"", "">>, <<"", "t">>, <<"d", "">>}

InitList ==
  /\ files \in ListVaults
  /\ dirs = DirsOf(files)
  /\ clock = MaxClock
  /\ last = Answer("none", [none |-> TRUE], TRUE, "", NoNote, <<>>, 0)
  /\ calls = <<>>

NextList ==
  \E f \in ListFilters, limit \in 1..MaxLimit, offset \in 0..MaxOffset :
    ListNotes(f[1], f[2], limit, offset)

SpecList == InitList /\ [][NextList]_vars

-----------------------------------------------------------------------------
(* SpecPaths: the note tools asked for paths inside the vault and for paths *)
(* whose ".." segments lead out of it.  A file outside the vault root has a *)
(* path that begins with "..".                                              *)

RequestPaths == {"a.md", "../x.md", "d/../../x.md"}

NextPaths ==
  \/ \E path \in RequestPaths, createFolders \in BOOLEAN :
       CreateNote(path, "Original", NoFrontmatter, createFolders)
  \/ \E path \in RequestPaths, content \in {"New", "Newer"} :
       UpdateNote(path, TRUE, content, NoFrontmatter, FALSE)
  \/ \E path \in RequestPaths, confirm \in {"true", "false"} : DeleteNote(path, confirm)
  \/ \E path \in RequestPaths : GetNote(path)

SpecPaths == Init /\ [][NextPaths]_vars

-----------------------------------------------------------------------------
(* SpecFresh: notes are created, rewritten and deleted while the vault is   *)
(* read, listed and searched                                                *)

FreshPaths == {"a.md", "d/c.md"}

NextFresh ==
  \/ CreateNote("a.md", "#t [[c]]", NoFrontmatter, TRUE)
  \/ CreateNote("d/c", "#t x", NoFrontmatter, TRUE)
  \/ UpdateNote("a.md", TRUE, "plain", NoFrontmatter, FALSE)
  \/ \E path \in FreshPaths : DeleteNote(path, "true")
  \/ \E path \in FreshPaths : GetNote(path)
  \/ \E folder \in {"", "d"} : ListNotes(folder, "", MaxLimit, 0)
  \/ \E query \in {"t", "c"} : SearchContent(query, "", "", FALSE, MaxLimit)
  \/ SearchTags("t")
  \/ \E path \in FreshPaths : GetBacklinks(path)
  \/ GetOrphans

SpecFresh == Init /\ [][NextFresh]_vars

-----------------------------------------------------------------------------
(* SpecScan: scans of vaults that hold hidden files and folders and files   *)
(* that are no markdown, with and without a folder to scan                  *)

ScanVaults ==
  {VaultOf([p \in present |-> File("text", 1)]) :
     present \in SUBSET {".obsidian/x.md", "a.md", "d/.h.md", "d/b.markdown", "e.MD", "n.txt"}}

InitScan ==
  /\ files \in ScanVaults
  /\ dirs = DirsOf(files)
  /\ clock = 1
  /\ last = Answer("none", [none |-> TRUE], TRUE, "", NoNote, <<>>, 0)
  /\ calls = <<>>

NextScan ==
  \/ \E folder \in {"", "d", ".obsidian"} : ListNotes(folder, "", MaxLimit, 0)
  \/ \E folder \in {"", "d", ".obsidian"} : SearchContent("text", folder, "", FALSE, MaxLimit)
  \/ GetOrphans

SpecScan == InitScan /\ [][NextScan]_vars

-----------------------------------------------------------------------------
(* SpecTitle: notes looked up by title in vaults where one title is a name, *)
(* a frontmatter title, an alias and a part of a name                       *)

TitleVaults ==
  {VaultOf(("a.md" :> fa) @@ ("ab.md" :> fab) @@ ("B.md" :> fB) @@ ("d/b.markdown" :> fb)
             @@ ("d/c.md" :> fc)) :
     fa \in {Absent, File("text", 1), File("---\ntitle: B\n---\ntext", 1),
             File("---\naliases:\n  - b\n---\ntext", 1)},
     fab \in {Absent, File("text", 1)},
     fB \in {Absent, File("text", 1)},
     fb \in {Absent, File("text", 1)},
     fc \in {Absent, File("---\naliases:\n  - B\n---\ntext", 1),
             File("---\ntitle: b\n---\ntext", 1)}}

InitTitle ==
  /\ files \in TitleVaults
  /\ dirs = DirsOf(files)
  /\ clock = 1
  /\ last = Answer("none", [none |-> TRUE], TRUE, "", NoNote, <<>>, 0)
  /\ calls = <<>>

NextTitle ==
  \/ \E title \in {"b", "B", "a", "zz"} : GetNoteByTitle(title)
  \/ \E field \in {"title", "aliases"}, hasValue \in BOOLEAN, limit \in 1..MaxLimit :
       SearchFrontmatter(field, hasValue, "b", limit)

SpecTitle == InitTitle /\ [][NextTitle]_vars

-----------------------------------------------------------------------------
(* SpecSearch: the search tools on vaults whose notes match a query by     *)
(* name, by frontmatter title and early or late in their content, and carry *)
(* tags of a hierarchy                                                      *)

SearchVaults ==
  {VaultOf(("a.md" :> fa) @@ ("ab.md" :> fab) @@ ("B.md" :> fB) @@ ("d/c.md" :> fc)) :
     fa \in {Absent, File("ab #project/alpha", 1), File("#beta text text ab", 1),
             File("---\ntitle: Cab\ntags:\n  - project\n---\ntext", 1)},
     fab \in {Absent, File("#projects", 1)},
     fB \in {Absent, File("AB #project", 1), File("#project/alpha #beta text AB", 1)},
     fc \in {Absent, File("#project/beta ab", 1), File("text #alpha", 1)}}

InitSearch ==
  /\ files \in SearchVaults
  /\ dirs = DirsOf(files)
  /\ clock = 1
  /\ last = Answer("none", [none |-> TRUE], TRUE, "", NoNote, <<>>, 0)
  /\ calls = <<>>

NextSearch ==
  \/ \E tag \in {"", "project"}, caseSensitive \in BOOLEAN, limit \in 1..MaxLimit :
       SearchContent("ab", "", tag, caseSensitive, limit)
  \/ \E tag \in {"project", "#project", "project/alpha", "beta", "proj"} : SearchTags(tag)
  \/ \E sortBy \in {"", "count", "name"} : ListTags(sortBy)

SpecSearch == InitSearch /\ [][NextSearch]_vars

-----------------------------------------------------------------------------
(* SpecGraph: the graph view on vaults whose notes link in chains and in    *)
(* circles, to themselves, by name, by path and to no note.  The loop of    *)
(* getConnectedNotes holds no await, so once begun it keeps going round     *)
(* until its condition fails: weak fairness of its step.                    *)

\* the largest maxDepth and the largest maxNotes of a request
MaxGraphDepth == 2

MaxGraphNotes == 3

GraphVaults ==
  {VaultOf(("a.md" :> fa) @@ ("ab.md" :> fab) @@ ("B.md" :> fB) @@ ("d/c.md" :> fc)) :
     fa \in {File("[[ab]] [[B]]", 1), File("[[ab]]", 1), File("text", 1)},
     fab \in {Absent, File("[[B]] [[a]]", 1), File("[[ab]]", 1)},
     fB \in {Absent, File("[[d/c]]", 1), File("[[a.md]]", 1)},
     fc \in {Absent, File("[[a]]", 1), File("[[zz]]", 1)}}

InitGraph ==
  /\ files \in GraphVaults
  /\ dirs = DirsOf(files)
  /\ clock = 1
  /\ last = Answer("none", [none |-> TRUE], TRUE, "", NoNote, <<>>, 0)
  /\ calls = Idle

NextGraph ==
  \/ \E centralNote \in {"", "a.md", "d/c.md", "zz.md"}, maxDepth \in 1..MaxGraphDepth,
        maxNotes \in 1..MaxGraphNotes :
       GetGraphViewCalled(centralNote, maxDepth, maxNotes)
  \/ ConnectedNotesStep
  \/ GetGraphViewAnswered

SpecGraph ==
  InitGraph /\ [][NextGraph]_vars /\ WF_vars(ConnectedNotesStep) /\ WF_vars(GetGraphViewAnswered)

-----------------------------------------------------------------------------
(* SpecRefs: the unlinked references of a note on vaults whose other notes  *)
(* mention it by name and by alias, once and several times, inside other    *)
(* words, and with and without a link to it                                 *)

RefVaults ==
  {VaultOf(("a.md" :> fa) @@ ("ab.md" :> fab) @@ ("B.md" :> fB) @@ ("d/c.md" :> fc)) :
     fa \in {File("see a and A", 1), File("---\naliases:\n  - big a\n---\n[[a]] x", 1),
             File("text", 1)},
     fab \in {Absent, File("an a, a big A", 1), File("a [[A]]", 1), File("banana", 1)},
     fB \in {Absent, File("the Big A is a", 1), File("[[d/c]] a_a", 1)},
     fc \in {Absent, File("a a a", 1), File("[[a.md]] a", 1), File("b: B", 1)}}

InitRefs ==
  /\ files \in RefVaults
  /\ dirs = DirsOf(files)
  /\ clock = 1
  /\ last = Answer("none", [none |-> TRUE], TRUE, "", NoNote, <<>>, 0)
  /\ calls = <<>>

NextRefs ==
  \E path \in {"a.md", "/a.md", "B.md", "zz.md"}, limit \in 1..MaxLimit :
    GetUnlinkedReferences(path, limit)

SpecRefs == InitRefs /\ [][NextRefs]_vars

-----------------------------------------------------------------------------
(* SpecDaily: the daily note on a vault where notes are also written at the *)
(* daily paths by createNote, with contents that parse and contents that do *)
(* not: a frontmatter whose tags are no list, a YAML block left open        *)

DailyTexts == {"mine", "---\ntags: daily\n---\nmine", "---\ntitle: [\n---\nmine"}

NextDaily ==
  \/ \E d \in {"2024-01-15", "2024-01-16"}, content \in DailyTexts,
        frontmatter \in {NoFrontmatter, Draft} :
       CreateNote(DailyPath(d), content, frontmatter, TRUE)
  \/ \E d \in {"2024-01-15", ""}, create \in BOOLEAN : GetDailyNote(d, create)

SpecDaily == Init /\ [][NextDaily]_vars

-----------------------------------------------------------------------------
(* SpecAsync: update requests that reach the server while another is being  *)
(* handled.  The request handler is an async function: it is started for    *)
(* each request as the request arrives and gives way at every await, so the *)
(* file system steps of updateNote (read the note, write the file, read the *)
(* note back) are steps of their own.  calls holds the requests being       *)
(* handled: where each one is, and the note it has read; it is <<>> where   *)
(* each request is answered before the next is sent.                        *)

\* the number of requests a client has in flight at once
MaxCalls == 2

AsyncPath == "a.md"

InitAsync ==
  /\ files = VaultOf(AsyncPath :> File("E", 1))
  /\ dirs = DirsOf(files)
  /\ clock = 1
  /\ last = Answer("none", [none |-> TRUE], TRUE, "", NoNote, <<>>, 0)
  /\ calls = [c \in 1..MaxCalls |->
               [pc |-> "none", content |-> "", append |-> FALSE, existing |-> NoNote]]

\* the handler is started for a request: updateNote calls readNote and awaits it
UpdateNoteCalled(c, content, append) ==
  /\ calls[c].pc = "none"
  /\ calls' = [calls EXCEPT ![c] = [pc |-> "readNote", content |-> content,
                                    append |-> append, existing |-> NoNote]]
  /\ UNCHANGED <<files, dirs, clock, last>>

\* const existing = await this.readNote(relativePath)
UpdateNoteRead(c) ==
  /\ calls[c].pc = "readNote"
  /\ \E existing \in {readNote(files, AsyncPath)} :
       IF existing.ok
       THEN /\ calls' = [calls EXCEPT ![c].pc = "writeFile", ![c].existing = existing.note]
            /\ UNCHANGED last
       ELSE /\ calls' = [calls EXCEPT ![c].pc = "done"]
            /\ last' = Answer("updateNote",
                              [path |-> AsyncPath, hasContent |-> TRUE,
                               content |-> calls[c].content, frontmatter |-> NoFrontmatter,
                               append |-> calls[c].append],
                              FALSE, ERROR_NOTE_NOT_FOUND, NoNote, <<>>, 0)
  /\ UNCHANGED <<files, dirs, clock>>

\* await fs.writeFile(absolutePath, fullContent), the content worked out from
\* the note read before
UpdateNoteWrite(c) ==
  /\ calls[c].pc = "writeFile"
  /\ \E wrote \in {writeFile(files, dirs, clock, getAbsolutePath(AsyncPath),
                             FullContent(NewContent(calls[c].existing.content, TRUE,
                                                    calls[c].content, calls[c].append),
                                         calls[c].existing.frontmatter).text)} :
       /\ files' = wrote.files
       /\ clock' = wrote.clock
  /\ calls' = [calls EXCEPT ![c].pc = "readBack"]
  /\ UNCHANGED <<dirs, last>>

\* return await this.readNote(relativePath): the request is answered
UpdateNoteAnswered(c) ==
  /\ calls[c].pc = "readBack"
  /\ \E back \in {readNote(files, AsyncPath)} :
       last' = Answer("updateNote",
                      [path |-> AsyncPath, hasContent |-> TRUE,
                       content |-> calls[c].content, frontmatter |-> NoFrontmatter,
                       append |-> calls[c].append],
                      back.ok, IF back.ok THEN "" ELSE ERROR_NOTE_NOT_FOUND, back.note,
                      <<>>, 0)
  /\ calls' = [calls EXCEPT ![c].pc = "done"]
  /\ UNCHANGED <<files, dirs, clock>>

NextAsync ==
  \/ \E c \in 1..MaxCalls, content \in {"X", "Y"}, append \in BOOLEAN :
       UpdateNoteCalled(c, content, append)
  \/ \E c \in 1..MaxCalls : UpdateNoteRead(c)
  \/ \E c \in 1..MaxCalls : UpdateNoteWrite(c)
  \/ \E c \in 1..MaxCalls : UpdateNoteAnswered(c)

SpecAsync == InitAsync /\ [][NextAsync]_vars

-----------------------------------------------------------------------------
(* The claims.  last is the latest request with its answer, files the vault *)
(* as that request left it; a primed last is the request of a step.        *)

\* C1: right after createNote(p, c, f) or updateNote(p, c, f, append = false)
\* succeeds, readNote(p) returns a note whose content is c and whose
\* frontmatter is what was written: f for a create, the frontmatter the note
\* had merged with f for an update.
C1_RoundTrip ==
  [][/\ (last'.op = "createNote" /\ last'.ok) =>
          \A r \in {readNote(files', last'.args.notePath)} :
            /\ r.ok
            /\ r.note.content = last'.args.content
            /\ FmEqual(r.note.frontmatter, last'.args.frontmatter)
     /\ (last'.op = "updateNote" /\ last'.ok /\ last'.args.hasContent /\ ~last'.args.append) =>
          \A r \in {readNote(files', last'.args.path)}, e \in {readNote(files, last'.args.path)} :
            /\ r.ok
            /\ r.note.content = last'.args.content
            /\ FmEqual(r.note.frontmatter,
                       SpreadMerge(e.note.frontmatter, last'.args.frontmatter))]_vars

\* C2: a file leaves the vault only in a deleteNote request whose confirm flag
\* is true; a deleteNote request whose flag is false or omitted fails and
\* leaves the vault as it was.
C2_DeleteOnlyConfirmed ==
  [][/\ (\E p \in DOMAIN files : p \notin DOMAIN files') =>
          /\ last'.op = "deleteNote"
          /\ last'.args.confirm = "true"
          /\ last'.ok
          /\ DOMAIN files \ DOMAIN files' = {getAbsolutePath(last'.args.path)}
     /\ (last'.op = "deleteNote" /\ last'.args.confirm # "true") =>
          /\ ~last'.ok
          /\ files' = files /\ dirs' = dirs]_vars

\* C2 witness: a confirmed deleteNote has removed a note that was there
C2_Witness ==
  /\ last.op = "deleteNote" /\ last.args.confirm = "true" /\ last.ok
  /\ last.args.path = "a.md" /\ "a.md" \notin DOMAIN files
  /\ "d/c.md" \in DOMAIN files

\* the names a link may give note B by: its filename, its path with or
\* without the markdown extension, its aliases
C3_Designations(B) ==
  {B.name, B.path, SubSeq(B.path, 1, Len(B.path) - Len(Extname(B.path)))} \cup AliasesOf(B)

\* C3: when a note A other than B holds a link whose target is, in any letter
\* case, B's filename, B's path with or without its markdown extension, or an
\* alias of B, getBacklinks(B.path) includes A.path and linksMatch holds of
\* the link and B.
C3_Backlinks ==
  (last.op = "getBacklinks" /\ last.ok) =>
    \A B \in {readNote(files, last.args.path).note} :
      \A A \in Range(getAllNotes(files, dirs, "")) :
        \A i \in 1..Len(A.links) :
          (/\ A.path # B.path
           /\ ToLowerCase(A.links[i]) \in {ToLowerCase(d) : d \in C3_Designations(B)}) =>
            /\ A.path \in Range(last.paths)
            /\ linksMatch(A.links[i], B)

\* C4: getOrphans lists no note that findNoteByTitle resolves a link of
\* another note to.
C4_OrphansUnlinked ==
  last.op = "getOrphans" =>
    \A A \in Range(getAllNotes(files, dirs, "")) :
      \A i \in 1..Len(A.links) :
        \A t \in {findNoteByTitle(files, dirs, A.links[i])} :
          (t.found /\ t.note.path # A.path) => t.note.path \notin Range(last.paths)

\* C4 witness: getOrphans has answered on a vault where a link of one note
\* resolves to another note, and it has listed some note
C4_Witness ==
  /\ last.op = "getOrphans"
  /\ last.paths # <<>>
  /\ \E A \in Range(getAllNotes(files, dirs, "")) :
       \E i \in 1..Len(A.links) :
         \E t \in {findNoteByTitle(files, dirs, A.links[i])} :
           t.found /\ t.note.path # A.path

\* C5: the notes getOrphans lists are exactly the notes whose getBacklinks is
\* empty.
C5_OrphansHaveNoBacklinks ==
  last.op = "getOrphans" =>
    \A P \in Range(getAllNotes(files, dirs, "")) :
      (P.path \in Range(last.paths)) <=> (getBacklinks(files, dirs, P.path).backlinks = <<>>)

\* C6: no link of a note, in wiki syntax or in markdown syntax, has a target
\* that begins with http:// or https://.
C6_NoExternalLinks ==
  (last.op = "getOutlinks" /\ last.ok) =>
    \A i \in 1..Len(last.paths) :
      ~StartsWith(last.paths[i], "http://") /\ ~StartsWith(last.paths[i], "https://")

\* the pages of a listing from offset on, one after the other
RECURSIVE C7_Pages(_, _, _, _, _)
C7_Pages(folder, tag, limit, offset, total) ==
  IF offset >= total THEN <<>>
  ELSE listNotes(files, dirs, folder, tag, limit, offset).notes
         \o C7_Pages(folder, tag, limit, offset + limit, total)

\* the pages of the latest listing put together are the notes the request
\* selects, every one once, the newest first
C7_PagesMakeTheList ==
  \A pages \in {C7_Pages(last.args.folder, last.args.tag, last.args.limit, 0, last.total)} :
    /\ Len(pages) = last.total
    /\ \A i, j \in 1..Len(pages) :
         i < j => pages[i].modified >= pages[j].modified /\ pages[i].path # pages[j].path
    /\ {pages[i].path : i \in 1..Len(pages)} =
         {n.path : n \in {m \in Range(getAllNotes(files, dirs, last.args.folder)) :
                            last.args.tag # "" => last.args.tag \in Range(m.tags)}}

\* C7 as stated: listNotes with limit L and offset O returns exactly
\* min(L, total - O) items, and its pages put together are the whole list.
C7_PageSizeMin ==
  last.op = "listNotes" =>
    /\ Len(last.paths) = Min(last.args.limit, last.total - last.args.offset)
    /\ C7_PagesMakeTheList

\* C7 amended: listNotes with limit L and offset O returns exactly
\* max(0, min(L, total - O)) items, and its pages put together are the whole
\* list, newest first, every note once.
C7_Pagination ==
  last.op = "listNotes" =>
    /\ Len(last.paths) = Max(0, Min(last.args.limit, last.total - last.args.offset))
    /\ C7_PagesMakeTheList

\* C7 witness: a last page that is not full, after a full one
C7_Witness ==
  /\ last.op = "listNotes"
  /\ last.total = 3 /\ last.args.limit = 2 /\ last.args.offset = 2
  /\ Len(last.paths) = 1

C9_AppendKeepsExisting ==
  [][(last'.op = "updateNote" /\ last'.ok /\ last'.args.hasContent /\ last'.args.append) =>
       \A e \in {readNote(files, last'.args.path)}, r \in {readNote(files', last'.args.path)} :
         r.note.content = e.note.content \o "\n\n" \o last'.args.content]_vars

\* C10: updateNote(p, C, undefined, append = true) on a note of content E
\* leaves the content E immediately followed by C.
C10_AppendAdjacent ==
  [][(/\ last'.op = "updateNote" /\ last'.ok /\ last'.args.hasContent /\ last'.args.append
      /\ last'.args.frontmatter = <<>>) =>
       \A e \in {readNote(files, last'.args.path)}, r \in {readNote(files', last'.args.path)} :
         r.note.content = e.note.content \o last'.args.content]_vars

\* C11: updateNote(p, frontmatter = F) merges F over the frontmatter the note
\* had: afterwards every key of F has F's value, every other key the note had
\* keeps its value, and with no content argument the content is as it was.
C11_FrontmatterMerge ==
  [][(last'.op = "updateNote" /\ last'.ok /\ last'.args.frontmatter # <<>>) =>
       \A e \in {readNote(files, last'.args.path).note},
          r \in {readNote(files', last'.args.path).note} :
         /\ \A k \in FmKeys(last'.args.frontmatter) :
              FmHas(r.frontmatter, k)
                /\ FmGet(r.frontmatter, k) = FmGet(last'.args.frontmatter, k)
         /\ \A k \in FmKeys(e.frontmatter) \ FmKeys(last'.args.frontmatter) :
              FmHas(r.frontmatter, k)
                /\ FmGet(r.frontmatter, k) = FmGet(e.frontmatter, k)
         /\ ~last'.args.hasContent => r.content = e.content]_vars

\* a request path that leads out of the vault root
C12_Escapes(path) == StartsWith(getAbsolutePath(path), "..")

\* C12: a note operation asked for a path that leads out of the vault root is
\* rejected with the 'Invalid path' error and touches nothing, so no file
\* outside the vault root is ever written.
C12_InsideVault ==
  [][/\ (last'.op \in {"getNote", "createNote", "updateNote", "deleteNote"}
           /\ C12_Escapes(last'.args.path)) =>
          /\ ~last'.ok
          /\ last'.err = ERROR_INVALID_PATH
          /\ files' = files /\ dirs' = dirs
     /\ \A p \in DOMAIN files' : ~StartsWith(p, "..")]_vars

\* C12, the state the claim rules out: a file written outside the vault root
C12_Written ==
  /\ last.op = "createNote" /\ last.ok
  /\ last.args.path = "../x.md"
  /\ "../x.md" \in DOMAIN files
  /\ files["../x.md"].text = "Original"

\* the answers that list notes by path
C13_Queries == {"listNotes", "searchContent", "searchTags", "getBacklinks", "getOrphans"}

C14_Midway(c) == calls[c].pc \in {"writeFile", "readBack"}

\* C14: tool requests never overlap: no two requests are midway through their
\* file system steps at once, and when two appending updateNote requests on
\* one path have been answered the note holds what each of them appended.
C14_NoOverlap ==
  /\ \A c, d \in DOMAIN calls : c # d => ~(C14_Midway(c) /\ C14_Midway(d))
  /\ (calls # <<>> /\ \A c \in DOMAIN calls : calls[c].pc = "done" /\ calls[c].append) =>
       \A c \in DOMAIN calls :
         Includes(readNote(files, AsyncPath).note.content, calls[c].content)

\* C14, the state the claim rules out: two appending requests have been
\* answered and the note holds what only one of them appended
C14_LostUpdate ==
  /\ calls # <<>>
  /\ \A c \in DOMAIN calls : calls[c].pc = "done" /\ calls[c].append
  /\ calls[1].content = "X" /\ calls[2].content = "Y"
  /\ last.ok
  /\ readNote(files, AsyncPath).note.content = "E\n\nY"

\* C15: readNote, updateNote and deleteNote on a path where no file exists
\* fail with the 'Note not found' error and leave the vault as it was; a
\* failed updateNote creates no file.
C15_NotFound ==
  [][(/\ last'.op \in {"getNote", "updateNote", "deleteNote"}
      /\ last'.op = "deleteNote" => last'.args.confirm = "true"
      /\ ~IsFile(files, getAbsolutePath(last'.args.path))) =>
       /\ ~last'.ok
       /\ last'.err = ERROR_NOTE_NOT_FOUND
       /\ files' = files /\ dirs' = dirs /\ clock' = clock]_vars

\* C15 witness: an updateNote of a path with no file has failed, in a vault
\* that holds another note
C15_Witness ==
  /\ last.op = "updateNote" /\ ~last.ok /\ last.err = ERROR_NOTE_NOT_FOUND
  /\ ~IsFile(files, "a.md")
  /\ IsFile(files, "d/c.md")

\* C16: no scan, of the vault or of a folder of it, and no query built on a
\* scan returns a note whose path has a component that begins with ".", and
\* every path returned ends in a markdown extension, in any letter case.
C16_ScanVisible ==
  (last.op \in {"listNotes", "searchContent", "getOrphans"}) =>
    \A i \in 1..Len(last.paths) :
      /\ \A name \in Range(Split(last.paths[i], "/")) : ~StartsWith(name, ".")
      /\ \E ext \in MARKDOWN_EXTENSIONS : EndsWith(ToLowerCase(last.paths[i]), ext)

\* the tier at which note n matches title t, t in lower case: 1 its filename
\* equals t, 2 its frontmatter title does, 3 an alias does, 4 its filename
\* contains t, 5 none of these
C17_Tier(n, t) ==
  IF ToLowerCase(n.name) = t THEN 1
  ELSE IF HasTitle(n) /\ ToLowerCase(TitleOf(n)) = t THEN 2
  ELSE IF \E a \in AliasesOf(n) : ToLowerCase(a) = t THEN 3
  ELSE IF Includes(ToLowerCase(n.name), t) THEN 4
  ELSE 5

\* C17: findNoteByTitle returns the first note in scan order of the earliest
\* tier that any note matches, and none exactly when no note matches a tier.
C17_EarliestTier ==
  last.op = "getNoteByTitle" =>
    \A notes \in {getAllNotes(files, dirs, "")}, t \in {ToLowerCase(last.args.title)} :
      IF \A i \in 1..Len(notes) : C17_Tier(notes[i], t) = 5
      THEN ~last.ok
      ELSE /\ last.ok
           /\ \E i \in 1..Len(notes) :
                /\ notes[i] = last.note
                /\ \A j \in 1..Len(notes) : C17_Tier(notes[j], t) >= C17_Tier(notes[i], t)
                /\ \A j \in 1..(i - 1) : C17_Tier(notes[j], t) > C17_Tier(notes[i], t)

\* C17 witness: a note found by its frontmatter title or alias in a vault
\* where another note's filename contains the title
C17_Witness ==
  /\ last.op = "getNoteByTitle" /\ last.ok /\ last.args.title = "b"
  /\ last.note.path = "d/c.md"
  /\ IsFile(files, "ab.md")
  /\ IsFile(files, "a.md")


-----------------------------------------------------------------------------
(* C18: searchContent answers with its results in non-increasing order of  *)
(* score, results of one score in the order of the scan, no note twice, and *)
(* with a limit exactly the first `limit` results of that full ranking.     *)

C18_Ranking ==
  last.op = "searchContent" =>
    \A full \in {searchContent(files, dirs, last.args.query, last.args.folder,
                               last.args.tag, last.args.caseSensitive, 0)} :
      \A scan \in {PathsOf(getAllNotes(files, dirs, last.args.folder))} :
        /\ last.results = SubSeq(full, 1, Min(last.args.limit, Len(full)))
        /\ \A i, j \in 1..Len(full) :
             i < j =>
               /\ full[i].score >= full[j].score
               /\ full[i].path # full[j].path
               /\ full[i].score = full[j].score =>
                    Least({k \in 1..Len(scan) : scan[k] = full[i].path})
                      < Least({k \in 1..Len(scan) : scan[k] = full[j].path})

\* a limit of 2 cuts a ranking of four results that has two of one score and
\* whose best result is not the first note of the scan
C18_Witness ==
  /\ last.op = "searchContent"
  /\ last.args.limit = 2
  /\ last.args.tag = ""
  /\ ~last.args.caseSensitive
  /\ PathsOf(last.results) = <<"ab.md", "a.md">>
  /\ last.results[1].score = TITLE_EXACT
  /\ last.results[2].score = CONTENT_EARLY
  /\ \E full \in {searchContent(files, dirs, "ab", "", "", FALSE, 0)} :
       /\ PathsOf(full) = <<"ab.md", "a.md", "B.md", "d/c.md">>
       /\ full[3].score = CONTENT_EARLY
       /\ full[4].score = CONTENT_LATE


-----------------------------------------------------------------------------
(* C19: searchTags(T) answers with exactly the notes that carry a tag equal *)
(* to T or beginning with T and "/", one leading "#" taken off T; a note    *)
(* whose only tag is project/alpha is found for project and project/alpha,  *)
(* and not for beta or proj.                                                *)

C19_TagHierarchy ==
  last.op = "searchTags" =>
    \A T \in {IF SubSeq(last.args.tag, 1, 1) = "#"
              THEN SubSeq(last.args.tag, 2, Len(last.args.tag))
              ELSE last.args.tag} :
      \A notes \in {getAllNotes(files, dirs, "")} :
        /\ Range(last.paths) =
             {notes[i].path : i \in {j \in 1..Len(notes) :
                \E k \in 1..Len(notes[j].tags) :
                  \/ notes[j].tags[k] = T
                  \/ /\ Len(notes[j].tags[k]) > Len(T)
                     /\ SubSeq(notes[j].tags[k], 1, Len(T) + 1) = T \o "/"}}
        /\ Len(last.paths) = Cardinality(Range(last.paths))
        /\ \A i \in 1..Len(notes) :
             notes[i].tags = <<"project/alpha">> =>
               /\ T \in {"project", "project/alpha"} => notes[i].path \in Range(last.paths)
               /\ T \in {"beta", "proj"} => notes[i].path \notin Range(last.paths)

\* "#project" finds the note tagged project/alpha and the note tagged
\* project, and leaves out the note tagged projects
C19_Witness ==
  /\ last.op = "searchTags"
  /\ last.args.tag = "#project"
  /\ last.paths = <<"a.md", "B.md">>
  /\ "ab.md" \in DOMAIN files
  /\ \E notes \in {getAllNotes(files, dirs, "")} :
       /\ PathsOf(notes) = <<"a.md", "ab.md", "B.md">>
       /\ notes[1].tags = <<"project/alpha">>
       /\ notes[2].tags = <<"projects">>
       /\ notes[3].tags = <<"project">>


-----------------------------------------------------------------------------
(* C20: listTags answers with one entry for each distinct tag of the vault, *)
(* its count the number of notes that carry the tag, never below 1; without *)
(* sortBy = name the entries go by non-increasing count, with it they go    *)
(* alphabetically by tag.                                                   *)

-----------------------------------------------------------------------------
(* C21: a listTags request that gives no sortBy is validated to             *)
(* sortBy = "name", so that the tags are listed by name.                    *)

C21_DefaultByName ==
  (last.op = "listTags" /\ last.args.given = "") =>
    /\ last.args.sortBy = "name"
    /\ \A i, j \in 1..Len(last.results) :
         i < j => localeCompare(last.results[i].tag, last.results[j].tag) < 0

\* a request without sortBy answered in the order of the counts, which is not
\* the order of the names
C21_ListedByCount ==
  /\ last.op = "listTags"
  /\ last.args.given = ""
  /\ last.args.sortBy = "count"
  /\ last.results = <<[tag |-> "project/alpha", count |-> 2],
                      [tag |-> "projects", count |-> 1],
                      [tag |-> "beta", count |-> 1],
                      [tag |-> "alpha", count |-> 1]>>


-----------------------------------------------------------------------------
(* C22: getConnectedNotes(central, allNotes, maxDepth, maxNotes) always     *)
(* ends, and returns at most maxNotes notes, none of them twice, the        *)
(* central note first when allNotes holds it, each of them within maxDepth  *)
(* hops of the central note, a hop going from a note to a note one of its   *)
(* links resolves to or to one of its backlinks.                            *)

\* the paths one hop away from the notes at the paths of from
C22_Hop(allNotes, from) ==
  from \cup UNION {{r.note.path : r \in {q \in {FindLinked(allNotes, n.links[k]) :
                                                  k \in 1..Len(n.links)} : q.found}}
                   \cup Range(BacklinksOf(n)) :
                     n \in {m \in Range(allNotes) : m.path \in from}}

RECURSIVE C22_Within(_, _, _)
C22_Within(allNotes, from, hops) ==
  IF hops = 0 THEN from ELSE C22_Within(allNotes, C22_Hop(allNotes, from), hops - 1)

C22_Returned ==
  (last.op = "getGraphView" /\ last.args.centralNote # "") =>
    \A allNotes \in {getAllNotes(files, dirs, "")} :
      /\ Len(last.paths) <= last.args.maxNotes
      /\ \A i, j \in 1..Len(last.paths) : i # j => last.paths[i] # last.paths[j]
      /\ last.args.centralNote \in Range(PathsOf(allNotes)) =>
           (last.paths # <<>> /\ last.paths[1] = last.args.centralNote)
      /\ Range(last.paths) \subseteq
           (C22_Within(allNotes, {last.args.centralNote}, last.args.maxDepth)
              \cap Range(PathsOf(allNotes)))

C22_Connected ==
  /\ [](calls.pc = "loop" => <>(calls.pc = "done"))
  /\ []C22_Returned

\* a traversal around a circle of links, ended by maxNotes before the queue
\* was empty
C22_Witness ==
  /\ last.op = "getGraphView"
  /\ last.args.centralNote = "a.md"
  /\ last.args.maxDepth = 2
  /\ last.args.maxNotes = 3
  /\ last.paths = <<"a.md", "ab.md", "B.md">>
  /\ files["ab.md"].text = "[[B]] [[a]]"
  /\ files["B.md"].text = "[[d/c]]"
  /\ "d/c.md" \in DOMAIN files


-----------------------------------------------------------------------------
(* C23: the traversal goes through backlinks as well as through links: a    *)
(* note with a link to the central note is in the graph centred on it,      *)
(* unless maxNotes was reached.                                             *)

C23_ThroughBacklinks ==
  (last.op = "getGraphView" /\ last.args.centralNote # "") =>
    \A allNotes \in {getAllNotes(files, dirs, "")} :
      (/\ last.args.centralNote \in Range(PathsOf(allNotes))
       /\ last.args.maxDepth >= 1
       /\ Len(last.paths) < last.args.maxNotes) =>
        \A i \in 1..Len(allNotes) :
          (\E k \in 1..Len(allNotes[i].links) :
             \E r \in {FindLinked(allNotes, allNotes[i].links[k])} :
               r.found /\ r.note.path = last.args.centralNote)
            => allNotes[i].path \in Range(last.paths)

\* d/c.md links to a.md, a.md links to no note: the graph centred on a.md
\* holds a.md alone
C23_BacklinkLeftOut ==
  /\ last.op = "getGraphView"
  /\ last.args.centralNote = "a.md"
  /\ last.args.maxDepth = 2
  /\ last.args.maxNotes = 3
  /\ files["a.md"].text = "text"
  /\ "d/c.md" \in DOMAIN files
  /\ files["d/c.md"].text = "[[a]]"
  /\ last.paths = <<"a.md">>


-----------------------------------------------------------------------------
(* C24: getUnlinkedReferences(target, limit) answers with at most `limit`   *)
(* results, in the order of the scan, each for a note of its own that is    *)
(* not the target and holds no link that resolves to the target; each score *)
(* is at least 1 and is the number of matches of the first term matched.    *)

C24_UnlinkedReferences ==
  (last.op = "getUnlinkedReferences" /\ last.ok) =>
    \A scan \in {getAllNotes(files, dirs, "")} :
      \A target \in {readNote(files, last.args.path).note} :
        /\ Len(last.results) <= last.args.limit
        /\ \A i \in 1..Len(last.results) :
             \E k \in 1..Len(scan) :
               /\ scan[k].path = last.results[i].path
               /\ scan[k].path # target.path
               /\ \A j \in 1..Len(scan[k].links) : ~linksMatch(scan[k].links[j], target)
               /\ last.results[i].score >= 1
               /\ \E terms \in {<<target.name>>
                                  \o (IF FmHas(target.frontmatter, "aliases")
                                      THEN FmGet(target.frontmatter, "aliases").val
                                      ELSE <<>>)} :
                    \E t \in 1..Len(terms) :
                      /\ last.results[i].score = WordMatches(scan[k].content, terms[t])
                      /\ \A u \in 1..(t - 1) : WordMatches(scan[k].content, terms[u]) = 0
               /\ \A j \in 1..(i - 1) :
                    \E h \in 1..(k - 1) : scan[h].path = last.results[j].path

\* the target asked for as "/a.md" is among its own unlinked references
C24_TargetListed ==
  /\ last.op = "getUnlinkedReferences"
  /\ last.ok
  /\ last.args.path = "/a.md"
  /\ files["a.md"].text = "see a and A"
  /\ last.paths # <<>>
  /\ last.paths[1] = "a.md"
  /\ last.results[1].score = 2


-----------------------------------------------------------------------------
(* C25: the number of orphans in the statistics of a vault is the number of *)
(* notes getOrphans lists on the same vault.                                *)

C25_OrphanCount ==
  last.op = "getVaultStats" => last.stats.orphanNotes = Len(getOrphans(files, dirs))

\* B.md links to a.md as [[A]]: getOrphans resolves the link and lists no
\* note, the statistics count a.md
C25_CountsLinkedNote ==
  /\ last.op = "getVaultStats"
  /\ DOMAIN files = {"a.md", "B.md"}
  /\ files["a.md"].text = "[[B]]"
  /\ files["B.md"].text = "---\naliases:\n  - bee\n---\n[[A]]"
  /\ getOrphans(files, dirs) = <<>>
  /\ last.stats.orphanNotes = 1


-----------------------------------------------------------------------------
(* C29: getBacklinks(P) never holds the target note itself, not even when   *)
(* the target links to itself, and holds no path twice, however P is        *)
(* spelled among the spellings readNote accepts.                            *)

C29_NoSelfBacklink ==
  (last.op = "getBacklinks" /\ last.ok) =>
    /\ readNote(files, last.args.path).note.path \notin Range(last.paths)
    /\ \A i, j \in 1..Len(last.paths) : i # j => last.paths[i] # last.paths[j]

\* a.md links to itself and is asked for as "/a.md": it is its own backlink
C29_SelfListed ==
  /\ last.op = "getBacklinks"
  /\ last.ok
  /\ last.args.path = "/a.md"
  /\ files["a.md"].text = "[[a]] [[BEE]]"
  /\ "a.md" \in Range(last.paths)


-----------------------------------------------------------------------------
(* C26: getDailyNote never writes over a daily note that exists: when a     *)
(* file stands at the daily path of the day asked for, the request leaves   *)
(* its text as it was, with create set or not, whatever the file holds and  *)
(* whether it can be read and parsed or not.                                *)

C26_DailyNoteKept ==
  [][last'.op = "getDailyNote" =>
       \A p \in {DailyPath(IF last'.args.date = "" THEN SubSeq(NowIso, 1, 10)
                           ELSE last'.args.date)} :
         IsFile(files, p) => (IsFile(files', p) /\ files'[p].text = files[p].text)]_vars

\* the vault's one file, the day's, has been written twice: by createNote,
\* and then by the request, which has answered with a new daily note; the
\* text createNote wrote was one that does not parse
C26_Overwritten ==
  /\ last.op = "getDailyNote"
  /\ last.args.date = "2024-01-15"
  /\ last.args.create
  /\ last.ok
  /\ DOMAIN files = {DailyPath("2024-01-15")}
  /\ clock = 2
  /\ files[DailyPath("2024-01-15")].mtime = 2
  /\ "daily-note" \in Range(last.note.tags)


-----------------------------------------------------------------------------
(* C27: createNote on a path where a note stands does not fail for that: it *)
(* fails only where the same request fails on a vault without the file (a   *)
(* content or frontmatter that does not parse).  It puts the new content    *)
(* and frontmatter in the place of the whole file, so that the note read    *)
(* back is the one the request gives on a vault without the file, with      *)
(* nothing of the old content or frontmatter.                               *)

C27_Replaces ==
  [][(last'.op = "createNote" /\ IsFile(files, last'.args.notePath)) =>
       \A p \in {last'.args.notePath} :
         \A full \in {FullContent(last'.args.content, last'.args.frontmatter)} :
           \A anew \in {createNote([q \in DOMAIN files \ {p} |-> files[q]], dirs, clock, p,
                                   last'.args.content, last'.args.frontmatter,
                                   last'.args.createFolders)} :
             /\ IF full.ok THEN files'[p].text = full.text ELSE files'[p] = files[p]
             /\ \A q \in DOMAIN files \ {p} : files'[q] = files[q]
             /\ last'.ok = anew.ok
             /\ last'.err = anew.err
             /\ last'.note = anew.note
             /\ last'.ok = (full.ok /\ parseNote(p, full.text, files'[p].mtime).ok)
             /\ last'.ok =>
                  /\ last'.note = readNote(files', p).note
                  /\ FmKeys(last'.note.frontmatter) = FmKeys(last'.args.frontmatter)
                  /\ last'.note.content \in {last'.args.content,
                                             Newline(last'.args.content)}]_vars

\* the vault's one file, a daily note, has been written twice, the second
\* time by createNote with a content and no frontmatter: nothing of what
\* stood there is read back
C27_Witness ==
  /\ last.op = "createNote"
  /\ last.ok
  /\ last.args.content = "mine"
  /\ last.args.frontmatter = NoFrontmatter
  /\ DOMAIN files = {DailyPath("2024-01-15")}
  /\ clock = 2
  /\ files[DailyPath("2024-01-15")] = File("mine", 2)
  /\ last.note.content = "mine"
  /\ last.note.frontmatter = <<>>
  /\ last.note.tags = <<>>


-----------------------------------------------------------------------------
(* C28: when getNote by title fails with 'Note not found', the suggestions  *)
(* that go with the error are none: findNoteByTitle finds no note for a     *)
(* title only when getSuggestions has no name for it on the same vault.     *)

-----------------------------------------------------------------------------
(* C30: searchFrontmatter answers with at most `limit` notes, as the other  *)
(* listings and searches do.                                                *)

C30_FrontmatterLimit ==
  last.op = "searchFrontmatter" => Len(last.paths) <= last.args.limit

\* two notes have a title, the request asks for one note and gets both
C30_LimitIgnored ==
  /\ last.op = "searchFrontmatter"
  /\ last.args.field = "title"
  /\ ~last.args.hasValue
  /\ last.args.limit = 1
  /\ last.paths = <<"a.md", "d/c.md">>

====
